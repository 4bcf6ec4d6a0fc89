----------------------------- MODULE MCBackends -----------------------------
(* The Linux and the Windows backend for TLC: a desktop device or a        *)
(* gamepad of one of them.                                                 *)
EXTENDS Integers

CONSTANTS Kinds, Contacts, MaxContacts, Detent, Distances, MaxScroll, MaxTouches,
          Profiles, MaxSubmits, MaxRequests, Effects, Lengths, Counts, MaxTime, MaxOrders,
          PointerIds, VirtualKeys, Capacity, MaxHeld, Reach, Motions, MaxDetents,
          Pads, Reports, MaxOutputs

VARIABLES
  machine,
  kind, via, kernel, lastMotion, buttons, remainder, contacts, slot, tracking, tool, held,
  travelled, failed,
  profile, backend, client, running, started, reader, reporter, mutex, last, packed, devices,
  queue, outstanding, sent, shown, partly, neutral, effects, gain, told, callback, felt, missed,
  now, updated, defined, playing, orders,
  device, api, form, usages, modifiers, pressed, carry, touches, pen, thread, stopping, screen,
  known, asked, scrolled, broken,
  pad, call, exists, leaked, open, streamed, lastReport, arrived, accepted, streamer, copy,
  listener, event, streamStop, listenStop, stopEvent, handler, pipe, written, noticed, dropped

LinuxDesktop == INSTANCE LinuxDesktop
LinuxGamepad == INSTANCE LinuxGamepad
WindowsDesktop == INSTANCE WindowsDesktop
WindowsGamepad == INSTANCE WindowsGamepad

ASSUME BackendsAssumption ==
  /\ LinuxDesktop!DesktopAssumption /\ LinuxGamepad!GamepadAssumption
  /\ WindowsDesktop!ScreenAssumption /\ WindowsGamepad!PadAssumption

\* The keys that are followed on Windows are told apart.  That is so for all keys but those
\* that name a key of either side, or that share a scan code or its usage with another key.
Ambiguous == {3, 12, 16, 17, 18, 234, 237, 241}

ASSUME KeysAssumption == WindowsDesktop!KeysApart(VirtualKeys)
ASSUME NearlyAllKeysApart == WindowsDesktop!KeysApart((1..254) \ Ambiguous)

linuxDesktopVars == <<kind, via, kernel, lastMotion, buttons, remainder, contacts, slot, tracking,
                      tool, held, travelled, failed>>
linuxGamepadVars == <<profile, backend, client, running, started, reader, reporter, mutex, last,
                      packed, devices, queue, outstanding, sent, shown, partly, neutral, effects,
                      gain, told, callback, felt, missed, now, updated, defined, playing, orders>>
windowsDesktopVars == <<device, api, form, usages, modifiers, pressed, carry, touches, pen, thread,
                        stopping, screen, known, asked, scrolled, broken>>
windowsGamepadVars == <<pad, call, exists, leaked, open, streamed, lastReport, arrived, accepted,
                        streamer, copy, listener, event, streamStop, listenStop, stopEvent,
                        handler, pipe, written, noticed, dropped>>
vars == <<machine, linuxDesktopVars, linuxGamepadVars, windowsDesktopVars, windowsGamepadVars>>

SomeDistances == {-3, 1}
SomeMotions == {<<2, -3>>, <<-1, 0>>}

Init ==
  /\ LinuxDesktop!Init /\ LinuxGamepad!Init /\ WindowsDesktop!Init /\ WindowsGamepad!Init
  /\ machine \in {"linux_desktop", "linux_gamepad", "windows_desktop", "windows_gamepad"}
  /\ machine # "linux_gamepad" => profile = "xbox_360"
  /\ machine # "windows_gamepad" => pad = "xbox_360"

Next ==
  /\ UNCHANGED machine
  /\ \/ /\ machine = "linux_desktop" /\ LinuxDesktop!Next
        /\ UNCHANGED <<linuxGamepadVars, windowsDesktopVars, windowsGamepadVars>>
     \/ /\ machine = "linux_gamepad" /\ LinuxGamepad!Next
        /\ UNCHANGED <<linuxDesktopVars, windowsDesktopVars, windowsGamepadVars>>
     \/ /\ machine = "windows_desktop" /\ WindowsDesktop!Next
        /\ UNCHANGED <<linuxDesktopVars, linuxGamepadVars, windowsGamepadVars>>
     \/ /\ machine = "windows_gamepad" /\ WindowsGamepad!Next
        /\ UNCHANGED <<linuxDesktopVars, linuxGamepadVars, windowsDesktopVars>>

Spec == /\ Init /\ [][Next]_vars
        /\ LinuxGamepad!Fairness /\ WindowsDesktop!Fairness /\ WindowsGamepad!Fairness

\* The variables of the devices have their types.
TypesOK ==
  /\ LinuxDesktop!TypeOK /\ LinuxGamepad!TypeOK
  /\ WindowsDesktop!TypeOK /\ WindowsGamepad!TypeOK

\* On Linux nothing a client did is stuck, and no part of a scroll is lost; on Windows a
\* key goes up as the one that went down, whichever way it is named and sent, and no part
\* of a motion or a scroll is lost.
ActionsShown == LinuxDesktop!ActionsShown /\ WindowsDesktop!KeysTrue

\* On Windows pointers, pens and mouse buttons are as the last call that succeeded for
\* each of them left them, whatever failed or was refreshed meanwhile, and a contact that
\* is shown can be released.
PointersTrue == WindowsDesktop!PointersTrue

\* A gamepad's state never goes back on the host, and what was accepted is there.
HostShowsNewest == LinuxGamepad!HostShowsNewest /\ WindowsGamepad!DriverHasAccepted

\* A creation that fails, and close(), leave no device and no thread.
OneDeviceLeft == LinuxGamepad!OneDeviceLeft /\ WindowsGamepad!NothingLeft

\* What is felt is what the host plays; its orders come in their order.
FeltIsPlaying == LinuxGamepad!FeltIsPlaying /\ WindowsGamepad!OutputNoticed

\* close() returns, requests of the kernel are answered, streamed reports arrive.
CallsReturn ==
  LinuxGamepad!GamepadLive /\ WindowsDesktop!CloseReturns /\ WindowsGamepad!PadLive
=============================================================================
