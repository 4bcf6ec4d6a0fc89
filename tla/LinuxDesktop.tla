---------------------------- MODULE LinuxDesktop ----------------------------
(***************************************************************************)
(* The keyboards, mice, touchscreens, trackpads and pen tablets that the   *)
(* Linux backend makes with uinput, or with XTest when uinput fails        *)
(* (uhid_backend.cpp).  A call writes events one by one and stops at the   *)
(* first write that fails; what the library remembers then depends on how  *)
(* far it came.  The calls of one device do not overlap (the device mutex  *)
(* of runtime.cpp), so a call is one step that succeeds or fails at any    *)
(* of its writes.                                                          *)
(*                                                                         *)
(* The kernel keeps the keys, the touch slots and the wheels of each input *)
(* device, and drops events that a device has not announced; the X server  *)
(* does the like for XTest, and what a closed XTest device leaves down     *)
(* there is not followed.  Positions are named for whom they are, axes     *)
(* that decide nothing are left out.                                       *)
(***************************************************************************)
EXTENDS Integers, Sequences, FiniteSets

CONSTANTS
  Kinds,         \* device kinds
  Contacts,      \* touch contact ids
  MaxContacts,   \* touch_max_contacts
  Detent,        \* mouse_scroll_units_per_detent
  Distances,     \* scroll distances
  MaxScroll,     \* bound: distance scrolled, and turned by one node's wheel
  MaxTouches     \* bound: touches begun

Absent == -1
Slots == 0..(MaxContacts - 1)
Buttons == {"BTN_LEFT", "BTN_RIGHT"}
Keys == {"KEY_LEFTCTRL", "KEY_LEFTSHIFT", "KEY_U", "KEY_1", "KEY_ENTER"}
Tools == {"TOOL_PEN", "TOOL_RUBBER", "TOUCH"}

DesktopAssumption ==
  /\ MaxContacts \in Nat \ {0} /\ Detent \in Nat \ {0} /\ Distances \subseteq Int
  /\ MaxScroll \in Nat /\ MaxTouches \in Nat
  /\ "BTN_LEFT" \notin Contacts

VARIABLES
  kind,        \* the device, "none" when there is none
  via,         \* "uinput" or "xtest"
  kernel,      \* for each evdev node and the X server: down, slot, touches, at, wheel, synced
  lastMotion,        \* last_motion_device_
  buttons,     \* relative_buttons_down_, absolute_buttons_down_
  remainder,   \* vertical_scroll_remainder_
  contacts,    \* contacts_
  slot,        \* current_slot_
  tracking,    \* next_tracking_id_
  tool,        \* last_tool_
  held,        \* history: what the client holds, by calls that succeeded
  travelled,   \* history: how far it scrolled
  failed       \* history: a write has failed

touchVars == <<contacts, slot, tracking>>
mouseVars == <<lastMotion, buttons, remainder, travelled>>
vars == <<kind, via, kernel, touchVars, mouseVars, tool, held, failed>>

Nodes == {"relative", "absolute"}
Sinks == Nodes \cup {"x"}
Untouched == [s \in Slots |-> Absent]

NewNode == [down |-> {}, slot |-> 0, touches |-> Untouched,
            at |-> [s \in Slots |-> "nobody"], wheel |-> 0, synced |-> TRUE]

TypeOK ==
  /\ kind \in Kinds \cup {"none"}
  /\ via = "xtest" => kind \in {"keyboard", "mouse"}
  /\ \A n \in Nodes : /\ kernel[n].slot \in Slots
                      /\ kernel[n].touches \in [Slots -> {Absent} \cup 0..MaxTouches]
  /\ lastMotion \in Nodes /\ buttons \in [Nodes -> SUBSET Buttons]
  /\ remainder \in (1 - Detent)..(Detent - 1)
  /\ contacts \in [Contacts -> Slots \cup {Absent}] /\ slot \in Slots \cup {Absent}
  /\ \A c, d \in Contacts : contacts[c] = contacts[d] /\ contacts[c] # Absent => c = d
  /\ tool \in Tools \cup {"unchanged"}

Init ==
  /\ kind = "none" /\ via = "uinput"
  /\ kernel = [n \in Sinks |-> NewNode] /\ lastMotion = "relative"
  /\ buttons = [n \in Nodes |-> {}] /\ remainder = 0 /\ travelled = 0
  /\ contacts = [c \in Contacts |-> Absent] /\ slot = Absent /\ tracking = 0
  /\ tool = "unchanged" /\ held = {} /\ failed = FALSE

-----------------------------------------------------------------------------
(* What a device announces, and what the kernel makes of an event.         *)

TouchAxes == {"MT_SLOT", "MT_TRACKING_ID", "MT_POSITION_X", "BTN_TOUCH"}

\* configure_evdev_mouse()
MouseCodes(node) ==
  Buttons \cup {"BTN_MIDDLE", "BTN_SIDE", "BTN_EXTRA", "REL_WHEEL", "REL_WHEEL_HI_RES"}
    \cup IF node = "absolute" THEN {"ABS_X", "ABS_Y"} ELSE {"REL_X", "REL_Y"}

\* configure_evdev_trackpad()
TrackpadCodes ==
  TouchAxes \cup {"BTN_LEFT", "TOOL_FINGER", "TOOL_DOUBLETAP", "TOOL_TRIPLETAP",
                  "TOOL_QUADTAP", "TOOL_QUINTTAP"}

\* configure_evdev_pen_tablet()
PenCodes ==
  {"BTN_TOUCH", "STYLUS", "STYLUS2", "STYLUS3", "TOOL_PEN", "TOOL_RUBBER", "TOOL_BRUSH",
   "TOOL_PENCIL", "TOOL_AIRBRUSH", "ABS_X", "ABS_Y", "ABS_PRESSURE", "ABS_DISTANCE",
   "ABS_TILT_X", "ABS_TILT_Y"}

\* configure_evdev_device()
Announced(node) ==
  CASE kind = "keyboard" -> Keys
    [] kind = "mouse" /\ node # "x" -> MouseCodes(node)
    [] kind # "keyboard" /\ node = "x" -> Buttons \cup {"REL_WHEEL"}
    [] kind = "touchscreen" /\ node # "x" -> TouchAxes
    [] kind = "trackpad" /\ node # "x" -> TrackpadCodes
    [] OTHER -> PenCodes

Axes == {"REL_X", "REL_Y", "ABS_X", "ABS_Y", "ABS_PRESSURE", "ABS_DISTANCE", "ABS_TILT_X",
         "ABS_TILT_Y", "REL_WHEEL_HI_RES"}

\* The kernel's input core.
Received(node, d, e) ==
  IF e.code = "SYN" THEN [d EXCEPT !.synced = TRUE]
  ELSE IF e.code \notin Announced(node) THEN d
  ELSE CASE e.code \in Axes -> [d EXCEPT !.synced = FALSE]
         [] e.code = "MT_SLOT" -> [d EXCEPT !.synced = FALSE, !.slot = e.value]
         [] e.code = "MT_TRACKING_ID" -> [d EXCEPT !.synced = FALSE, !.touches[d.slot] = e.value]
         [] e.code = "MT_POSITION_X" -> [d EXCEPT !.synced = FALSE, !.at[d.slot] = e.value]
         [] e.code = "REL_WHEEL" -> [d EXCEPT !.synced = FALSE, !.wheel = @ + e.value]
         [] OTHER -> [d EXCEPT !.synced = FALSE,
                        !.down = IF e.value = 1 THEN @ \cup {e.code} ELSE @ \ {e.code}]

\* What a node becomes, event by event.
After(node, d, events) ==
  LET after[i \in 0..Len(events)] ==
        IF i = 0 THEN d ELSE Received(node, after[i - 1], events[i])
  IN after[Len(events)]

Event(code, value) == [code |-> code, value |-> value]
Syn == Event("SYN", 0)

\* emit_event(): the first n of the events are written, and if these are not all
\* the next write has failed.  Bound: such a device is only closed.
Write(node, events, n) ==
  LET to == IF via = "xtest" THEN "x" ELSE node IN
  /\ ~failed /\ n \in 0..Len(events)
  /\ via = "xtest" => n = Len(events)
  /\ kernel' = [kernel EXCEPT ![to] = After(to, @, SubSeq(events, 1, n))]
  /\ failed' = (n < Len(events))

HeldAfter(code, pressed) == IF pressed THEN held \cup {code} ELSE held \ {code}

-----------------------------------------------------------------------------
(* create_keyboard() and its kin.  Nothing is left of a device that fails. *)

Fresh ==
  /\ kernel' = [n \in Sinks |-> NewNode]
  /\ lastMotion' = "relative" /\ buttons' = [n \in Nodes |-> {}] /\ remainder' = 0 /\ travelled' = 0
  /\ contacts' = [c \in Contacts |-> Absent] /\ slot' = Absent /\ tracking' = 0
  /\ tool' = "unchanged" /\ held' = {} /\ failed' = FALSE

Create(k, by) ==
  /\ kind = "none" /\ kind' = k
  /\ by = "xtest" => k \in {"keyboard", "mouse"}
  /\ via' = by
  /\ Fresh

Close ==
  /\ kind # "none" /\ kind' = "none"
  /\ via' = "uinput"
  /\ Fresh

-----------------------------------------------------------------------------
(* Keyboard.                                                               *)

Tap(key) == <<Event(key, 1), Syn, Event(key, 0), Syn>>

KeyEvents(key, pressed) == <<Event(key, IF pressed THEN 1 ELSE 0), Syn>>

SubmitKey(key, pressed, n) ==
  /\ kind = "keyboard"
  /\ Write("relative", KeyEvents(key, pressed), n)
  /\ held' = IF n < 2 THEN held ELSE HeldAfter(key, pressed)
  /\ UNCHANGED <<kind, via, touchVars, mouseVars, tool>>

\* type_text_with_unicode_hex(), for one code point.
TextEvents(digits) ==
  KeyEvents("KEY_LEFTCTRL", TRUE) \o KeyEvents("KEY_LEFTSHIFT", TRUE) \o Tap("KEY_U")
    \o KeyEvents("KEY_LEFTSHIFT", FALSE) \o KeyEvents("KEY_LEFTCTRL", FALSE)
    \o [i \in 1..(4 * digits) |-> Tap("KEY_1")[((i - 1) % 4) + 1]] \o Tap("KEY_ENTER")

\* The keys of the text are up afterwards, those the client held among them.
TypeText(digits, n) ==
  /\ kind = "keyboard"
  /\ Write("relative", TextEvents(digits), n)
  /\ held' = held \ {TextEvents(digits)[i].code : i \in 1..n}
  /\ UNCHANGED <<kind, via, touchVars, mouseVars, tool>>

-----------------------------------------------------------------------------
(* Mouse.                                                                  *)

Move(node, n) ==
  /\ kind = "mouse"
  /\ LET events == IF node = "relative" THEN <<Event("REL_X", 1), Event("REL_Y", 1), Syn>>
                                        ELSE <<Event("ABS_X", 1), Event("ABS_Y", 1), Syn>>
     IN /\ Write(node, events, n)
        /\ lastMotion' = IF n = Len(events) /\ via = "uinput" THEN node ELSE lastMotion
  /\ UNCHANGED <<kind, via, touchVars, buttons, remainder, travelled, tool, held>>

\* Faulty: a button is released where the pointer moved last.
ButtonNodeNow(button, pressed) == lastMotion

\* button_device()
ButtonNode(button, pressed) ==
  CASE ~pressed /\ button \in buttons["relative"] -> "relative"
    [] ~pressed /\ button \notin buttons["relative"] /\ button \in buttons["absolute"] -> "absolute"
    [] OTHER -> lastMotion

\* The client presses and releases in turn.
PressButton(button, pressed, n) ==
  /\ kind = "mouse" /\ pressed = (button \notin held)
  /\ LET node == ButtonNode(button, pressed) IN
     /\ Write(node, <<Event(button, IF pressed THEN 1 ELSE 0), Syn>>, n)
     /\ held' = IF n < 2 THEN held ELSE HeldAfter(button, pressed)
     /\ buttons' = IF via = "xtest" \/ n < 2 THEN buttons
                   ELSE [buttons EXCEPT ![node] = IF pressed THEN @ \cup {button} ELSE @ \ {button}]
  /\ UNCHANGED <<kind, via, touchVars, lastMotion, remainder, travelled, tool>>

\* Division and remainder of C++, which round towards zero.
Quotient(a, b) == IF a < 0 THEN -((-a) \div b) ELSE a \div b

\* accumulated_legacy_scroll()
Accumulated(distance) ==
  LET total == remainder + distance
  IN [detents |-> Quotient(total, Detent), remainder |-> total - Detent * Quotient(total, Detent)]

\* legacy_scroll_steps(): XTest has wheel clicks only, and never less than one.
Clicks(distance) ==
  IF Quotient(distance, Detent) # 0 THEN Quotient(distance, Detent)
  ELSE IF distance > 0 THEN 1 ELSE -1

XTestScroll(distance) ==
  /\ kind = "mouse" /\ via = "xtest"
  /\ Write("x", <<Event("REL_WHEEL", Clicks(distance))>>, 1)
  /\ kernel'["x"].wheel \in -MaxScroll..MaxScroll
  /\ UNCHANGED <<kind, via, touchVars, mouseVars, tool, held>>

\* submit_scroll(); the axes are alike.
Scroll(distance, n) ==
  /\ kind = "mouse" /\ via = "uinput" /\ travelled + distance \in -MaxScroll..MaxScroll
  /\ LET to == Accumulated(distance)
         events == (IF to.detents # 0 THEN <<Event("REL_WHEEL", to.detents)>> ELSE <<>>)
                     \o <<Event("REL_WHEEL_HI_RES", distance), Syn>>
     IN /\ Write(lastMotion, events, n) /\ kernel'[lastMotion].wheel \in -MaxScroll..MaxScroll
        /\ IF n < Len(events) THEN UNCHANGED <<remainder, travelled>>
           ELSE remainder' = to.remainder /\ travelled' = travelled + distance
  /\ UNCHANGED <<kind, via, touchVars, lastMotion, buttons, tool, held>>

-----------------------------------------------------------------------------
(* Touchscreen and trackpad.                                               *)

Active(cs) == {c \in Contacts : cs[c] # Absent}

\* Faulty: slots are taken in turn.
SlotInTurn(c) == IF contacts[c] # Absent THEN contacts[c] ELSE tracking % MaxContacts

\* slot_for_contact(): the contact's slot, or the lowest free one.
FreeSlots == Slots \ {contacts[c] : c \in Active(contacts)}
SlotOf(c) ==
  IF contacts[c] # Absent THEN contacts[c]
  ELSE CHOOSE s \in FreeSlots : \A t \in FreeSlots : s <= t

SelectSlot(s) == IF s = slot THEN <<>> ELSE <<Event("MT_SLOT", s)>>

\* emit_trackpad_tool_buttons()
ToolButtons(count) ==
  LET shows(code, yes) == Event(code, IF yes THEN 1 ELSE 0) IN
  <<shows("BTN_TOUCH", count > 0), shows("TOOL_FINGER", count = 1),
    shows("TOOL_DOUBLETAP", count = 2), shows("TOOL_TRIPLETAP", count = 3),
    shows("TOOL_QUADTAP", count = 4), shows("TOOL_QUINTTAP", count >= 5)>>

\* place_touch_contact()
PlaceContact(c, n) ==
  /\ kind \in {"touchscreen", "trackpad"}
  /\ contacts[c] # Absent \/ FreeSlots # {}
  /\ LET new == contacts[c] = Absent
         to == [contacts EXCEPT ![c] = SlotOf(c)]
         select == SelectSlot(SlotOf(c))
         begin == IF ~new THEN <<>>
                  ELSE <<Event("MT_TRACKING_ID", tracking)>>
                         \o IF kind = "trackpad" THEN ToolButtons(Cardinality(Active(to)))
                                                 ELSE <<Event("BTN_TOUCH", 1)>>
         events == select \o begin \o <<Event("MT_POSITION_X", c), Syn>>
     IN /\ new => tracking < MaxTouches
        /\ Write("relative", events, n)
        /\ contacts' = to /\ slot' = SlotOf(c)
        /\ tracking' = IF new /\ n >= Len(select) THEN tracking + 1 ELSE tracking
        /\ held' = IF n = Len(events) THEN HeldAfter(c, TRUE) ELSE held
  /\ UNCHANGED <<kind, via, mouseVars, tool>>

\* release_touch_contact()
ReleaseContact(c, n) ==
  /\ kind \in {"touchscreen", "trackpad"} /\ contacts[c] # Absent
  /\ LET to == [contacts EXCEPT ![c] = Absent]
         select == SelectSlot(contacts[c])
         end == IF kind = "trackpad" THEN ToolButtons(Cardinality(Active(to)))
                ELSE IF Active(to) = {} THEN <<Event("BTN_TOUCH", 0)>> ELSE <<>>
         events == select \o <<Event("MT_TRACKING_ID", Absent)>> \o end \o <<Syn>>
     IN /\ Write("relative", events, n)
        /\ slot' = contacts[c]
        /\ contacts' = IF n >= Len(select) THEN to ELSE contacts
        /\ held' = IF n = Len(events) THEN HeldAfter(c, FALSE) ELSE held
  /\ UNCHANGED <<kind, via, tracking, mouseVars, tool>>

\* emit_touch_button()
TouchButton(pressed, n) ==
  /\ kind = "trackpad"
  /\ Write("relative", <<Event("BTN_LEFT", IF pressed THEN 1 ELSE 0), Syn>>, n)
  /\ held' = IF n < 2 THEN held ELSE HeldAfter("BTN_LEFT", pressed)
  /\ UNCHANGED <<kind, via, touchVars, mouseVars, tool>>

-----------------------------------------------------------------------------
(* Pen tablet.  Pressure and distance are absent, zero or more.            *)

Levels == {Absent, 0, 1}

\* pen_tool_to_linux()
ToolCode(t) == IF t = "TOUCH" THEN "BTN_TOUCH" ELSE t

\* update_pen_tool()
ToolEvents(t) ==
  IF t \in {"unchanged", tool} THEN <<>>
  ELSE <<Event(ToolCode(t), 1)>>
         \o IF tool = "unchanged" THEN <<>> ELSE <<Event(ToolCode(tool), 0)>>

\* emit_pen_pressure(), emit_pen_distance()
PressureEvents(pressure, distance) ==
  (IF pressure = Absent THEN <<>>
   ELSE <<Event("ABS_PRESSURE", pressure), Event("ABS_DISTANCE", 0), Event("BTN_TOUCH", pressure)>>)
  \o (IF distance = Absent THEN <<>>
      ELSE <<Event("ABS_DISTANCE", distance), Event("ABS_PRESSURE", 0), Event("BTN_TOUCH", 0)>>)

PlaceTool(t, pressure, distance, n) ==
  /\ kind = "pen_tablet"
  /\ LET change == ToolEvents(t)
         events == change \o <<Event("ABS_X", 1), Event("ABS_Y", 1)>>
                     \o PressureEvents(pressure, distance)
                     \o <<Event("ABS_TILT_X", 0), Event("ABS_TILT_Y", 0), Syn>>
     IN /\ Write("relative", events, n)
        /\ tool' = IF t # "unchanged" /\ n >= Len(change) THEN t ELSE tool
  /\ UNCHANGED <<kind, via, touchVars, mouseVars, held>>

PenButton(pressed, n) ==
  /\ kind = "pen_tablet"
  /\ Write("relative", <<Event("STYLUS", IF pressed THEN 1 ELSE 0), Syn>>, n)
  /\ held' = IF n < 2 THEN held ELSE HeldAfter("STYLUS", pressed)
  /\ UNCHANGED <<kind, via, touchVars, mouseVars, tool>>

-----------------------------------------------------------------------------
MaxWrites == 40

Next ==
  \/ \E k \in Kinds, by \in {"uinput", "xtest"} : Create(k, by)
  \/ Close
  \/ \E d \in Distances : XTestScroll(d)
  \/ \E n \in 0..MaxWrites :
       \/ \E key \in Keys, p \in BOOLEAN : SubmitKey(key, p, n)
       \/ \E digits \in 1..2 : TypeText(digits, n)
       \/ \E node \in Nodes : Move(node, n)
       \/ \E b \in Buttons, p \in BOOLEAN : PressButton(b, p, n)
       \/ \E d \in Distances : Scroll(d, n)
       \/ \E c \in Contacts : PlaceContact(c, n) \/ ReleaseContact(c, n)
       \/ \E p \in BOOLEAN : TouchButton(p, n) \/ PenButton(p, n)
       \/ \E t \in Tools \cup {"unchanged"}, p, d \in Levels : PlaceTool(t, p, d, n)

Spec == Init /\ [][Next]_vars

-----------------------------------------------------------------------------
Pressed == UNION {kernel[n].down : n \in Sinks}
Fingers == Active(contacts)
Shown == {s \in Slots : kernel["relative"].touches[s] # Absent}

\* As long as no write has failed, the host sees down what the client holds and
\* nothing else: no key of a typed text, no button left on the mouse device where
\* the pointer no longer is, no touch in another contact's slot, no second tool.
NothingStuck ==
  ~failed =>
    /\ kernel["relative"].synced /\ kernel["absolute"].synced
    /\ kind \in {"keyboard", "mouse"} => Pressed = held
    /\ kernel["relative"].down \cap kernel["absolute"].down = {}
    /\ kind \in {"touchscreen", "trackpad"} =>
         /\ ("BTN_TOUCH" \in Pressed) = (Fingers # {})
         /\ Shown = {contacts[c] : c \in Fingers} /\ Fingers = held \ {"BTN_LEFT"}
         /\ \A c \in Fingers : kernel["relative"].at[contacts[c]] = c
    /\ kind = "trackpad" =>
         /\ ("BTN_LEFT" \in Pressed) = ("BTN_LEFT" \in held)
         /\ \A k \in 1..3 : (<<"TOOL_FINGER", "TOOL_DOUBLETAP", "TOOL_TRIPLETAP">>[k] \in Pressed)
                              = (Cardinality(Fingers) = k)
    /\ kind = "pen_tablet" =>
         /\ Pressed \cap {"TOOL_PEN", "TOOL_RUBBER"} = {tool} \ {"TOUCH", "unchanged"}
         /\ ("STYLUS" \in Pressed) = ("STYLUS" \in held)

\* Scrolling in small steps moves the wheel of old hosts as far as one long scroll
\* would: less than a detent is outstanding, also when the pointer moves between
\* the relative and the absolute device meanwhile.
ScrollKept ==
  ~failed =>
    LET turned == Detent * (kernel["relative"].wheel + kernel["absolute"].wheel)
    IN travelled - turned \in (1 - Detent)..(Detent - 1)

\* What the host has of a device is what the client did with it: nothing stuck,
\* and no part of a scroll lost.
ActionsShown == NothingStuck /\ ScrollKept
=============================================================================
