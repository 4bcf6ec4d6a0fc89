--------------------------- MODULE WindowsDesktop ---------------------------
(***************************************************************************)
(* The keyboards, mice, touchscreens and pen tablets of the Windows        *)
(* backend (windows_backend.cpp).  Keyboards and mice are HID devices of   *)
(* the driver, which take whole reports, or inject with SendInput.         *)
(* Touchscreens and pens inject frames of pointers, and a thread injects   *)
(* the last frame again every 50 ms while a pointer is active.  The        *)
(* client's calls do not overlap (device mutex of runtime.cpp), and the    *)
(* thread holds the device's own mutex for a frame, so a call and a        *)
(* refresh are each one step.                                              *)
(*                                                                         *)
(* Windows takes an injection or refuses it, and the client goes on with   *)
(* the device either way; the second attempt after a change of the input   *)
(* desktop is part of one injection.  Typed text and absolute motion go    *)
(* through SendInput in one piece and leave nothing behind; what SendInput *)
(* left down when its device is closed is not followed.                    *)
(***************************************************************************)
EXTENDS Integers, Sequences, FiniteSets, SequencesExt, WindowsKeys

CONSTANTS
  VirtualKeys,   \* virtual keys
  Capacity,      \* usages in a keyboard report
  MaxHeld,       \* bound: keys not known to be up
  PointerIds,    \* touch contact ids
  MaxContacts,   \* max_contacts
  Reach,         \* the farthest motion of one report
  Motions,       \* relative motions
  Detent,        \* mouse_scroll_units_per_detent
  MaxDetents,    \* detents of one report
  Distances,     \* scroll distances
  MaxScroll      \* bound: distance scrolled

ScreenAssumption ==
  /\ VirtualKeys \subseteq 1..254 /\ "pen" \notin PointerIds
  /\ {Capacity, MaxContacts, Reach, Detent, MaxDetents} \subseteq Nat \ {0}
  /\ Motions \subseteq Int \X Int /\ Distances \subseteq Int /\ {MaxScroll, MaxHeld} \subseteq Nat

VARIABLES
  device,      \* the device, "none" when there is none
  api,         \* "hid", "input" or "pointer"
  form,        \* the form in which the client names its keys
  usages,      \* pressed_usages_
  modifiers,   \* modifiers_
  pressed,     \* buttons_
  carry,       \* vertical_scroll_remainder_
  touches,     \* contacts_, contact_ids_ and contact_touching_
  pen,         \* pointer_, barrel_pressed_, active_ and contacting_
  thread, stopping,  \* repeat_thread_ and its stop token
  screen,      \* what Windows shows of the device
  known,        \* history: what the client did with it, by calls that succeeded
  asked,       \* history: the motion of the last call
  scrolled,    \* history: the distance scrolled, until a call fails
  broken       \* history: a call has failed

libraryVars == <<usages, modifiers, pressed, carry, touches, pen>>
threadVars == <<thread, stopping>>
historyVars == <<asked, scrolled, broken>>
vars == <<device, api, form, libraryVars, threadVars, screen, known, historyVars>>

Buttons == {"left", "right"}
Marks == {"barrel", "eraser"}
Edges == {"down", "up", "canceled", "update"}   \* pointer_edge_triggered_flags
Transitions == {"release", "cancel", "leave"}

NewPen == [flags |-> {}, barrel |-> FALSE, active |-> FALSE, contacting |-> FALSE]
NoPointer == [at |-> "away", marks |-> {}]
NewScreen ==
  [keys |-> {}, typed |-> {}, rollover |-> FALSE, buttons |-> {}, moved |-> <<0, 0>>, wheel |-> 0,
   pointers |-> [p \in PointerIds \cup {"pen"} |-> NoPointer], odd |-> FALSE]

TypeOK ==
  /\ device \in {"none", "keyboard", "mouse", "touchscreen", "pen_tablet"}
  /\ api \in {"hid", "input", "pointer"} /\ form \in Forms
  /\ modifiers \subseteq Modifiers /\ pressed \subseteq Buttons
  /\ carry \in (1 - Detent)..(Detent - 1)
  /\ Len(touches) <= MaxContacts
  /\ \A i, j \in DOMAIN touches : touches[i].id = touches[j].id => i = j
  /\ thread \in {"none", "asleep", "awake", "ended"}
  /\ device = "none" => thread = "none" /\ ~stopping

Fresh ==
  /\ usages' = {} /\ modifiers' = {} /\ pressed' = {} /\ carry' = 0 /\ touches' = <<>>
  /\ pen' = NewPen /\ screen' = NewScreen /\ stopping' = FALSE
  /\ asked' = <<0, 0>> /\ scrolled' = 0 /\ broken' = FALSE

Init ==
  /\ device = "none" /\ api = "input" /\ form = "plain" /\ known = <<>> /\ thread = "none"
  /\ usages = {} /\ modifiers = {} /\ pressed = {} /\ carry = 0 /\ touches = <<>>
  /\ pen = NewPen /\ screen = NewScreen /\ stopping = FALSE
  /\ asked = <<0, 0>> /\ scrolled = 0 /\ broken = FALSE

\* create_keyboard() and its kin.  Keyboards and mice fall back to SendInput when
\* there is no driver, broker or licence.
Create(kind, by, named) ==
  /\ device = "none" /\ device' = kind /\ api' = by /\ form' = named
  /\ (by = "pointer") = (kind \in {"touchscreen", "pen_tablet"})
  /\ named = "plain" \/ kind = "keyboard"
  /\ known' = CASE kind = "keyboard" -> [k \in VirtualKeys |-> "up"]
               [] kind = "mouse" -> [b \in Buttons |-> "up"]
               [] kind = "touchscreen" -> [c \in PointerIds |-> "away"]
               [] OTHER -> [x \in {"pen"} \cup Marks |-> IF x = "pen" THEN "away" ELSE "up"]
  /\ thread' = IF by = "pointer" THEN "asleep" ELSE "none"
  /\ Fresh

Known(x, state, ok) ==
  /\ known' = [known EXCEPT ![x] = IF ok THEN state ELSE "unknown"]
  /\ broken' = (broken \/ ~ok)

UpOrDown(down) == IF down THEN "down" ELSE "up"
SetIf(yes, set, x) == IF yes THEN set \cup {x} ELSE set \ {x}

-----------------------------------------------------------------------------
(* Keyboards.                                                              *)

\* WindowsHidKeyboard::emit(), and the host that keeps what it had when the
\* report says that there are too many keys.
KeyReport(ok) ==
  screen' =
    IF ~ok THEN screen
    ELSE IF Cardinality(usages') > Capacity THEN [screen EXCEPT !.rollover = TRUE]
    ELSE [screen EXCEPT
            !.rollover = FALSE,
            !.keys = UNION ({KeyOfUsage(u, VirtualKeys) : u \in usages'}
                              \cup {KeyOfModifier(m, VirtualKeys) : m \in modifiers'})]

\* WindowsKeyboard::submit()
KeyInput(event, down, ok) ==
  /\ screen' = IF ~ok THEN screen
               ELSE [screen EXCEPT !.typed =
                       IF down THEN @ \cup KeyOfInput(SentInput(event), VirtualKeys)
                               ELSE @ \ KeyOfInput(SentInput(event), VirtualKeys)]
  /\ UNCHANGED <<usages, modifiers>>

SubmitKey(key, down, ok) ==
  /\ device = "keyboard"
  /\ LET event == KeyEvent(key, form)
         bit == hid_keyboard_modifier_bit(event)
         usage == hid_keyboard_usage(event)
     IN \/ /\ api = "hid" /\ bit # NoModifier
           /\ modifiers' = SetIf(down, modifiers, bit) /\ UNCHANGED usages
           /\ KeyReport(ok)
        \/ /\ api = "hid" /\ bit = NoModifier /\ usage # NoCode
           /\ usages' = SetIf(down, usages, usage) /\ UNCHANGED modifiers
           /\ KeyReport(ok)
        \/ /\ api = "input" \/ (bit = NoModifier /\ usage = NoCode)
           /\ KeyInput(event, down, ok)
  /\ Known(key, UpOrDown(down), ok)
  /\ Cardinality({k \in VirtualKeys : known'[k] # "up"}) <= MaxHeld
  /\ UNCHANGED <<device, api, form, pressed, carry, touches, pen, threadVars, asked, scrolled>>

-----------------------------------------------------------------------------
(* Mice.  Every report of a HID mouse has all of its buttons.              *)

SubmitButton(button, down, ok) ==
  /\ device = "mouse"
  /\ pressed' = IF api = "hid" THEN SetIf(down, pressed, button) ELSE pressed
  /\ screen' = [screen EXCEPT !.moved = <<0, 0>>,
                  !.buttons = CASE ~ok -> @
                                [] ok /\ api = "hid" -> pressed'
                                [] OTHER -> SetIf(down, @, button)]
  /\ asked' = <<0, 0>>
  /\ Known(button, UpOrDown(down), ok)
  /\ UNCHANGED <<device, api, form, usages, modifiers, carry, touches, pen, threadVars, scrolled>>

Clamped(low, value, high) == IF value < low THEN low ELSE IF value > high THEN high ELSE value

MaxParts == 6

Plus(a, b) == <<a[1] + b[1], a[2] + b[2]>>
Minus(a, b) == <<a[1] - b[1], a[2] - b[2]>>

\* The loops that send a motion, or detents, in reports of low to high: what is left
\* of the whole and what the reports say, after each of them.
Reported(whole, low, high) ==
  LET after[n \in 0..MaxParts] ==
        IF n = 0 THEN [left |-> whole, sum |-> <<0, 0>>]
        ELSE LET left == after[n - 1].left
                 part == <<Clamped(low, left[1], high), Clamped(low, left[2], high)>>
             IN [left |-> Minus(left, part), sum |-> Plus(after[n - 1].sum, part)]
  IN after

\* The n-th report is sent when something is left before it; SendInput sends all at once.
Sent(after, n) == IF api = "hid" THEN n > 0 => after[n - 1].left # <<0, 0>> ELSE n <= 1
Whole(after, n) == IF api = "hid" THEN after[n].left = <<0, 0>> ELSE n = 1

\* submit_relative_motion(): n reports are taken, and if something is left the next one
\* fails.
Move(motion, n) ==
  /\ device = "mouse"
  /\ LET after == Reported(motion, -Reach - 1, Reach) IN
     /\ Sent(after, n)
     /\ screen' = [screen EXCEPT
                     !.moved = IF api = "hid" THEN after[n].sum ELSE IF n = 1 THEN motion ELSE <<0, 0>>,
                     !.buttons = IF api = "hid" /\ n > 0 THEN pressed ELSE @]
     /\ asked' = motion
     /\ broken' = (broken \/ ~Whole(after, n))
  /\ UNCHANGED <<device, api, form, libraryVars, threadVars, known, scrolled>>

\* Division and remainder of C++, which round towards zero.
TowardsZero(a, b) == IF a < 0 THEN -((-a) \div b) ELSE a \div b

\* submit_scroll() and the wheel of SendInput; the axes are alike.  Turns of the wheel
\* are counted until a call fails.
Scroll(distance, n) ==
  /\ device = "mouse"
  /\ LET total == carry + distance
         detents == TowardsZero(total, Detent)
         after == Reported(<<detents, 0>>, -MaxDetents, MaxDetents)
         turned == IF api = "hid" THEN Detent * after[n].sum[1] ELSE distance
     IN /\ scrolled + distance \in -MaxScroll..MaxScroll
        /\ Sent(after, n)
        /\ broken' = (broken \/ ~Whole(after, n))
        /\ carry' = IF api = "hid" THEN total - Detent * detents ELSE carry
        /\ screen' = [screen EXCEPT !.moved = <<0, 0>>,
                        !.wheel = IF broken' THEN @ ELSE @ + turned,
                        !.buttons = IF api = "hid" /\ n > 0 THEN pressed ELSE @]
        /\ scrolled' = IF broken' THEN scrolled ELSE scrolled + distance
        /\ asked' = <<0, 0>>
  /\ UNCHANGED <<device, api, form, usages, modifiers, pressed, touches, pen, threadVars, known>>

-----------------------------------------------------------------------------
(* Frames of pointers.                                                     *)

\* What Windows makes of a pointer's flags.
Placed(flags) ==
  [at |-> CASE "incontact" \in flags -> "touch"
            [] "incontact" \notin flags /\ "inrange" \in flags -> "hover"
            [] OTHER -> "away",
   marks |-> flags \cap Marks]

\* An edge that does not fit: down without a contact that begins or a contact that
\* begins without it, up without a contact that ends.
Odd(pointer, flags) ==
  \/ ("down" \in flags) # ("incontact" \in flags /\ pointer.at # "touch")
  \/ "up" \in flags /\ ("incontact" \in flags \/ pointer.at # "touch")

\* inject_synthetic_pointer_input() for a frame of pointers [id, flags].
Inject(frame, ok) ==
  screen' =
    IF ~ok THEN screen
    ELSE LET of(p) == CHOOSE q \in frame : q.id = p
             ids == {q.id : q \in frame}
         IN [screen EXCEPT
               !.odd = @ \/ (~broken /\ \E q \in frame : Odd(screen.pointers[q.id], q.flags)),
               !.pointers = [p \in DOMAIN @ |-> IF p \in ids THEN Placed(of(p).flags) ELSE @[p]]]

\* The flags that end a pointer.
Ended(flags, transition, contact) ==
  (flags \ {"incontact", "inrange"})
    \cup (IF transition = "cancel" THEN {"canceled"} ELSE {})
    \cup {IF transition # "leave" /\ contact THEN "up" ELSE "update"}

-----------------------------------------------------------------------------
(* Touchscreens.                                                           *)

Ids == {touches[i].id : i \in DOMAIN touches}

\* slot_for_contact()
SlotFor(c) == IF c \in Ids THEN CHOOSE i \in DOMAIN touches : touches[i].id = c
                           ELSE Len(touches) + 1

TouchFrame(contacts) == {[id |-> contacts[i].id, flags |-> contacts[i].flags] : i \in DOMAIN contacts}

\* place_contact()
PlaceContact(c, touching, ok) ==
  /\ device = "touchscreen" /\ ~stopping /\ SlotFor(c) <= MaxContacts
  /\ LET old == IF c \in Ids THEN touches[SlotFor(c)]
                             ELSE [id |-> c, flags |-> {}, touching |-> FALSE]
         flags == {"inrange"} \cup
                  IF touching THEN old.flags \cup {"incontact", IF old.touching THEN "update" ELSE "down"}
                              ELSE (old.flags \ {"incontact"}) \cup {"update"}
         placed(contact) == IF c \in Ids THEN [touches EXCEPT ![SlotFor(c)] = contact]
                                         ELSE Append(touches, contact)
     IN /\ Inject(TouchFrame(placed([old EXCEPT !.flags = flags])), ok)
        /\ touches' = IF ok THEN placed([id |-> c, flags |-> flags \ Edges, touching |-> touching])
                            ELSE placed([old EXCEPT !.flags = flags])
  /\ Known(c, IF touching THEN "touch" ELSE "hover", ok)
  /\ UNCHANGED <<device, api, form, usages, modifiers, pressed, carry, pen, threadVars, asked, scrolled>>

\* Faulty: the contact is forgotten also when Windows refuses its end.
ReleaseForgets(c, transition, ok) ==
  /\ device = "touchscreen" /\ ~stopping /\ c \in Ids
  /\ LET slot == SlotFor(c)
         ending == [touches EXCEPT ![slot].flags = Ended(@, transition, touches[slot].touching)]
     IN /\ Inject(TouchFrame(ending), ok)
        /\ touches' = RemoveAt(ending, slot)
  /\ Known(c, "away", ok)
  /\ UNCHANGED <<device, api, form, usages, modifiers, pressed, carry, pen, threadVars, asked, scrolled>>

\* release_contact() and erase_slot()
ReleaseContact(c, transition, ok) ==
  /\ device = "touchscreen" /\ ~stopping /\ c \in Ids
  /\ LET slot == SlotFor(c)
         ending == [touches EXCEPT ![slot].flags = Ended(@, transition, touches[slot].touching)]
     IN /\ Inject(TouchFrame(ending), ok)
        /\ touches' = IF ok THEN RemoveAt(ending, slot) ELSE ending
  /\ Known(c, "away", ok)
  /\ UNCHANGED <<device, api, form, usages, modifiers, pressed, carry, pen, threadVars, asked, scrolled>>

-----------------------------------------------------------------------------
(* Pens.  A pressure below zero is none.                                   *)

\* update_tool_flags()
ToolFlags(flags, tool) ==
  CASE tool = "eraser" -> flags \cup {"eraser"}
    [] tool = "unchanged" -> flags
    [] OTHER -> flags \ {"eraser"}

BarrelFlags(flags, down) == SetIf(down, flags, "barrel")

PlaceTool(tool, transition, pressure, ok) ==
  /\ device = "pen_tablet" /\ ~stopping
  /\ LET held == BarrelFlags(ToolFlags(pen.flags, tool), pen.barrel)
         inRange == transition = "update"
         flags == IF ~inRange THEN Ended(held, transition, pen.contacting)
                  ELSE {"inrange", "update"} \cup
                       IF ~pressure THEN held \ {"incontact"}
                       ELSE held \cup {"incontact"} \cup (IF pen.contacting THEN {} ELSE {"down"})
     IN /\ Inject({[id |-> "pen", flags |-> flags]}, ok)
        /\ pen' = [pen EXCEPT !.flags = IF ok THEN flags \ Edges ELSE flags,
                     !.active = inRange, !.contacting = inRange /\ pressure]
        /\ known' = [known EXCEPT
             !["pen"] = IF ~ok THEN "unknown"
                        ELSE IF ~inRange THEN "away" ELSE IF pressure THEN "touch" ELSE "hover",
             !["eraser"] = IF tool = "unchanged" THEN @
                           ELSE IF ok THEN UpOrDown(tool = "eraser") ELSE "unknown"]
  /\ broken' = (broken \/ ~ok)
  /\ UNCHANGED <<device, api, form, usages, modifiers, pressed, carry, touches, threadVars, asked, scrolled>>

\* button(): the edges go whatever becomes of the injection.
PenButton(down, ok) ==
  /\ device = "pen_tablet" /\ ~stopping
  /\ LET flags == BarrelFlags(pen.flags, down) IN
     IF pen.active
       THEN /\ Inject({[id |-> "pen", flags |-> flags \cup {"update"}]}, ok)
            /\ pen' = [pen EXCEPT !.barrel = down, !.flags = flags \ Edges]
       ELSE /\ ok /\ pen' = [pen EXCEPT !.barrel = down, !.flags = flags]
            /\ UNCHANGED screen
  /\ Known("barrel", UpOrDown(down), ok)
  /\ UNCHANGED <<device, api, form, usages, modifiers, pressed, carry, touches, threadVars, asked, scrolled>>

-----------------------------------------------------------------------------
(* start_repeat_thread()                                                   *)

\* The thread has slept, and looks whether it shall stop.
Wake ==
  /\ thread = "asleep"
  /\ thread' = IF stopping THEN "ended" ELSE "awake"
  /\ UNCHANGED <<device, api, form, libraryVars, stopping, screen, known, historyVars>>

\* Nothing is remembered of an injection of the thread, the edges of a call that
\* failed go with it.
Refresh(ok) ==
  /\ thread = "awake" /\ thread' = "asleep"
  /\ LET frame == CASE device = "touchscreen" -> TouchFrame(touches)
                    [] device = "pen_tablet" /\ pen.active -> {[id |-> "pen", flags |-> pen.flags]}
                    [] OTHER -> {}
     IN Inject(frame, ok)
  /\ UNCHANGED <<device, api, form, libraryVars, stopping, known, historyVars>>

\* close() of a keyboard or a mouse.
Close ==
  /\ device \in {"keyboard", "mouse"} /\ device' = "none"
  /\ api' = "input" /\ form' = "plain" /\ known' = <<>> /\ thread' = "none"
  /\ Fresh

\* stop_repeat_thread(): the stop is asked for, then the thread is joined.
StopThread ==
  /\ thread # "none" /\ ~stopping /\ stopping' = TRUE
  /\ UNCHANGED <<device, api, form, libraryVars, thread, screen, known, historyVars>>

\* close_device_locked()
CloseDevice ==
  /\ thread = "ended" /\ device' = "none"
  /\ api' = "input" /\ form' = "plain" /\ known' = <<>> /\ thread' = "none"
  /\ Fresh

-----------------------------------------------------------------------------
Next ==
  \/ \E kind \in {"keyboard", "mouse", "touchscreen", "pen_tablet"},
        by \in {"hid", "input", "pointer"}, named \in Forms : Create(kind, by, named)
  \/ \E ok \in BOOLEAN :
       \/ \E key \in VirtualKeys, down \in BOOLEAN : SubmitKey(key, down, ok)
       \/ \E button \in Buttons, down \in BOOLEAN : SubmitButton(button, down, ok)
       \/ \E c \in PointerIds, touching \in BOOLEAN : PlaceContact(c, touching, ok)
       \/ \E c \in PointerIds, t \in Transitions : ReleaseContact(c, t, ok)
       \/ \E tool \in {"pen", "eraser", "unchanged"}, t \in Transitions \cup {"update"},
             pressure \in BOOLEAN : PlaceTool(tool, t, pressure, ok)
       \/ \E down \in BOOLEAN : PenButton(down, ok)
       \/ Refresh(ok)
  \/ \E n \in 0..MaxParts :
       \/ \E motion \in Motions : Move(motion, n)
       \/ \E distance \in Distances : Scroll(distance, n)
  \/ Wake \/ Close \/ StopThread \/ CloseDevice

\* The thread runs, and close() goes on.
Fairness == WF_vars(Wake) /\ WF_vars(\E ok \in BOOLEAN : Refresh(ok)) /\ WF_vars(CloseDevice)
Spec == Init /\ [][Next]_vars /\ Fairness

-----------------------------------------------------------------------------
Down(x) ==
  CASE device = "keyboard" -> x \in screen.keys \cup screen.typed
    [] device = "mouse" -> x \in screen.buttons
    [] OTHER -> x \in screen.pointers["pen"].marks

Pointers == CASE device = "touchscreen" -> PointerIds
              [] device = "pen_tablet" -> {"pen"}
              [] OTHER -> {}

\* What the client last did to a key, a button or a pointer with a call that succeeded
\* is what Windows shows, whatever calls failed between for others, whatever the refresh
\* injects, in every form that names a key.  Marks of a pen show while it is in range,
\* keys as long as the report has room for them.
Shown ==
  \A x \in DOMAIN known :
    \/ known[x] = "unknown"
    \/ x \in Pointers /\ screen.pointers[x].at = known[x]
    \/ x \notin Pointers /\ Down(x) = (known[x] = "down")
    \/ device = "keyboard" /\ screen.rollover
    \/ device = "pen_tablet" /\ x \in Marks /\ known["pen"] \in {"away", "unknown"}

\* A contact that Windows shows in range can be released: the library still has it,
\* also after failures.
NoneStranded ==
  \A c \in PointerIds : screen.pointers[c].at # "away" => c \in Ids

\* While no call has failed each contact gets one down when it begins, none from the
\* refresh, and up only when it ends.
EdgesFit == ~broken => ~screen.odd

\* While no call has failed a motion arrives whole, and of a scroll less than a detent is
\* outstanding.
MotionWhole ==
  ~broken =>
    /\ screen.moved = asked
    /\ scrolled - screen.wheel \in (1 - Detent)..(Detent - 1)
    /\ api = "input" => scrolled = screen.wheel

PointersTrue == (device # "keyboard" => Shown) /\ NoneStranded /\ EdgesFit
KeysTrue == (device = "keyboard" => Shown) /\ MotionWhole

\* close() returns, the thread ends.
CloseReturns == stopping ~> (device = "none")
=============================================================================
