# libvirtualhid in TLA+

libvirtualhid lets an application create virtual gamepads, keyboards, mice and
other input devices on Linux, Windows and macOS. This directory specifies the
parts of it where threads, processes and failures meet, and the formats in which
clients and hosts talk to each other; it model-checks them with TLC on small
instances, and proves with TLAPS the safety of the portable core, of the gamepads on
macOS, Linux and Windows, of the pointers on Windows, of both brokers and of both Windows
drivers, for any number of threads, devices and calls. Paths below are relative to the repository.

## The system

| Part | State it keeps | Operations | Talks to |
| --- | --- | --- | --- |
| Runtime and handles (`src/core/runtime.cpp`) | id counter, six vectors of weak pointers, per device an open flag, the last input, a counter, a callback and a mutex | `create_*`, `submit`, `set_output_callback`, `dispatch_output`, `close`, `close_all`, `active_device_count` | a platform backend, with the device mutex held |
| Gamepad adapter, report codec, profiles (`src/core/`) | the last gamepad state; otherwise pure functions and tables | state changes, packing of reports, descriptors | the runtime's handle |
| macOS gamepad (`src/platform/macos/macos_broker_client.cpp`, `broker/libvirtualhid_macos_broker.cpp`) | a socket, one waiting answer, a queue of outputs, a reader and a callback thread; in the broker one session and one HID device per client | create, submit (one or two reports, each answered within a limit), outputs, close, loss of the licence | the core above, IOKit below |
| macOS licence manager (`broker/license_manager.mm`) | the licence and its file, when it was validated last, since when Polar is out of reach, an evaluation window, counts of gamepads | authorise, count, ask again, remove; activate, validate, deactivate, timed validation | sessions of the broker, the Polar licence service |
| macOS keyboard and mouse | pressed buttons | event posting | CoreGraphics |
| Windows broker (`src/platform/windows/broker/libvirtualhid_broker.cpp`) | the device table, the licence, its schedule and its file, an evaluation window, what is to be revoked | create, destroy, activate, validate, deactivate, cleanup, timed validation | clients over a pipe, the driver over IOCTLs, the Polar licence service |
| Windows driver (`src/platform/windows/driver/`) | device records with queues of input reports, pending read requests, an object of the VHF framework | create, destroy, submit, read output, cancellation, close of a control file | broker, client, VHF |
| Xbox 360 driver (`driver/libvirtualhid_xbox360_umdf.cpp`, `broker/xbox_360_software_device.cpp`) | one device per instance: the newest input, a report for VHF, games that wait, rumble levels, one buffered event | create the software device, initialize, submit, wait for input, rumble, read output, removal | broker, client, VHF, games that use XUSB |
| Windows backend (`src/platform/windows/windows_backend.cpp`) | key and button state, one output thread and one PID timer thread per context, Win32 fallbacks | the backend interface of the core | broker and driver |
| Linux backend (`src/platform/linux/uhid_backend.cpp`) | file descriptors, worker threads, force feedback effects, touch slots | the backend interface of the core | uhid and uinput |
| PID force feedback (`src/platform/windows/shared/generic_pid_rumble.hpp`) | effect blocks and their play state | host output reports to rumble | Linux and Windows backends |

What is hard in each:

* **Runtime.** Several threads use one handle; `close_all()` and the count go
  through vectors of weak pointers while other threads create, use and destroy
  devices; a creation takes three critical sections; backends keep unguarded
  members and may refuse or fail; callbacks call back into the library. It is
  correct if backend calls of one device never overlap, a handle reports what
  the platform has seen, nothing open is lost sight of, and no thread is stuck.
* **macOS gamepad.** Four threads in two processes and a socket. An answer may
  come after its request was given up, the broker may die, lose its licence or
  fall silent, outputs may overflow the queue, and a callback may close the
  gamepad whose callback it is. It is correct if an answer is never taken for
  another's, what counts was accepted, a closed gamepad is quiet, everybody
  returns, and the HID device goes with its client.
* **macOS licence manager.** A thread per client, one that validates, two mutexes, of
  which one is held across calls to Polar and writes of the file, and gamepads that are
  authorised before they are made and counted after. It is correct if file and memory
  agree whenever nobody is about to change them, no gamepad goes uncounted, an outage
  leaves one gamepad and is looked into again, and gamepads go when their licence does.
* **Windows broker.** Two threads share licence and device table, release their
  mutex around calls that take seconds, and persist what they learn; the driver
  may refuse, Polar may be out of reach or revoke, clients, broker and Windows
  may end at any point. It is correct if it never loses track of a device or of
  an order to remove one, honours the limits its documentation states, counts
  usage, and keeps validating.
* **Windows driver.** Requests, their cancellation, VHF callbacks, cleanup of
  handles and removal of the hardware run on different threads and meet over one
  read request. It is correct if a request is completed exactly once, output
  reports reach the client that owns the device once and in order, and nothing of
  a handle outlives its cleanup.
  Input reports wait in queues of limited length, are merged and split, and a
  buffer belongs to VHF until VHF says otherwise: no press, release or motion may
  be lost or made up below the limit, and VHF's contract is kept whatever is
  deleted when.
* **Xbox 360 driver.** It handles requests in parallel: the broker's initialize, the
  client's submits, a game's rumble and its requests to wait for input, VHF's callback
  and a timer meet over one report, one event and one mutex that is released in between;
  the broker shares a context with a callback that may outlive its wait. It is correct if
  VHF's contract is kept, the newest input and the newest levels are what is read, and
  the context is freed once.
* **Windows backend.** One thread dispatches reports and another advances timed
  effects on the same state; one repeats the frames of a touchscreen or pen, one the
  reports of a Switch controller, one reads what the host sends to an Xbox 360
  controller. Windows may refuse any injection and the driver any report, a key has
  four names, and contacts share slots. It is correct if what is felt is what plays, no
  wake-up is lost, what Windows shows is what the client last did, and `close()` ends
  the threads.
* **Linux backend.** A call writes several events and may fail at any of them;
  the pointer has two devices; touch contacts share a fixed set of slots; worker
  threads poll descriptors that `close()` closes; force feedback has timed
  effects. It is correct if nothing is stuck on the host, states never go back, a
  failed creation leaves nothing, what is felt is what plays, and calls return.
* **Codec and adapter.** Nine profiles and seven Xbox transports carry one state
  in sixteen layouts. They are correct if the host reads what the client meant,
  and hears back what it asked.

`PROJECT.json` lists the hazards of each part with the properties that cover them.
Known beyond that list, and without a property because nothing is promised or the
environment decides: the core's vectors and the driver's buffer of output events grow
without a limit; descriptor numbers are reused by the system; usage is reported to
Polar at least once, and more often when an answer is lost; the driver may be
reloaded while the broker keeps its handle; a device destroyed by the broker during a
cleanup may leave an event in the buffer, and one whose creation outlives its client
and the broker stays until the next broker's reset; outputs that come before a
gamepad is registered with the Windows context are dropped.

## Modules

| Module | Stands for |
| --- | --- |
| `DeviceContract` | abstract: what a device promises its client, without locks, threads or backends |
| `Runtime` | the core; implements `DeviceContract` |
| `RuntimeProofs` | theorems about `Runtime`, with proofs |
| `MacosGamepad` | handle, client, socket and broker session of one macOS gamepad |
| `MacosGamepadProofs` | theorems about `MacosGamepad`, with proofs |
| `WindowsBroker` | service and validation threads of the broker, its files, the driver's device set, Polar |
| `MacosLicense` | the licence manager of the macOS broker, and how its sessions use it |
| `BrokersProofs` | theorems about `WindowsBroker` and `MacosLicense`, and about the two side by side in `MCBrokers`, with proofs |
| `WindowsOutput` | output reports on Windows: the driver's events, reads and cleanups, and the clients' output threads |
| `WindowsOutputProofs` | theorems about `WindowsOutput`, with proofs |
| `WindowsInput` | input reports on Windows: one device of the driver, its queue, and its deletion |
| `XboxInput` | an Xbox 360 gamepad on Windows: its software device, its driver's input, its removal |
| `XboxOutput` | rumble of an Xbox 360 gamepad in its driver |
| `DriversProofs` | theorems about `WindowsInput`, `XboxInput` and `XboxOutput`, with their proofs |
| `SequenceProofs` | induction over numbers and over sequences, and what a fold of a sequence is |
| `WindowsPid` | force feedback of the Generic Controller on Windows, from the host's blocks to the client's callback |
| `LinuxDesktop` | keyboard, mouse, touchscreen, trackpad and pen on Linux |
| `LinuxGamepad` | a gamepad on Linux, with its reader and its reporter thread |
| `HidProfiles` | the gamepad profiles and what their descriptors declare |
| `ReportCodec` | packing of input reports, parsing of output reports, Xbox transports, replies to drivers; extends `HidProfiles` |
| `GamepadAdapter` | the gamepad state adapter over the codec, with a host at the other end; extends `ReportCodec` |
| `ReportsProofs` | theorems about `WindowsPid`, beside the codec as in `MCReports`, with proofs |
| `WindowsKeys` | how the Windows backend names a key: scan codes, modifier bits, usages, virtual keys |
| `WindowsDesktop` | keyboard, mouse, touchscreen and pen on Windows, with the refresh thread; extends `WindowsKeys` |
| `WindowsGamepad` | a gamepad on Windows, with the Switch stream and the Xbox 360 output thread |
| `BackendsProofs` | theorems about `LinuxDesktop`, `LinuxGamepad`, `WindowsDesktop` and `WindowsGamepad`, with their proofs |
| `MCBackends`, `MCBrokers`, `MCDrivers`, `MCReports` | put side by side the two Linux and two Windows backends, the two brokers, the input and the output of both drivers, and `GamepadAdapter` and `WindowsPid`, for TLC; one of them runs in a behaviour |
| other `MC*` | instances for TLC |

Definitions whose comment begins with "Faulty" or "Mutant" are not part of a
specification: each is a plausible mistake in a definition that follows it, and
shows that a property notices that mistake.

### Runtime and DeviceContract

A step is the code between two points at which another thread can interfere:
taking a mutex, calling a backend, releasing a mutex. `runtimeLock` and
`deviceLock` are the two levels of mutexes, `registry` the vectors in the order
of their `emplace_back` (`kind` tells them apart), `handle` the client's
`unique_ptr`, `open`, `last`, `submitted` and `callback` the fields of a device,
`frame` and `pc` a thread's call. `phase`, `delivered`, `accepted` and
`installed` are the backend's side: what the platform has really been given. The
actions carry the names of the functions; `Pin` is `weak_ptr::lock()`,
`BackendClose` the call of `close()` whose failure may leave the platform device
behind. A thread that runs an output callback may make any further call, as the
code lets it. `last` is the field that a device's getter returns, of which an accepted
input leaves what its function assigns (`Kept`): most inputs all of it (`Whole`), the
release, cancellation and departure of a contact (`ContactEnds`) its `id` alone, a text
and the buttons of a trackpad or pen tablet (`Unkept`) nothing. `named` and `placed` record
the last input accepted that named a contact and the last whole one, which is what `id` and
`rest` are compared with. Clients may do anything except destroy a handle that another
thread is using, which the API forbids. The six device classes have the same
structure and are told apart by kind only, except that gamepads have callbacks.

`DeviceContract` is the promise: created once, inputs accepted only while open,
the last one kept and all of them counted, closed for good. `Runtime` implements
it with the platform's view of inputs as the abstract one, so the refinement says
that what the platform accepted was accepted while the device was open, and is all that
was counted; what the getters make of it is `HandlesAreTrue`.

### MacosGamepad

Client threads call `submit` and `close` on a handle, each at most `MaxCalls` times;
`Worker` is the thread that runs the output callback, which may itself close the
gamepad (`CallbackCloses`). `upstream` and `downstream` are the socket, `session` the
broker's thread for this client. Construction is a step of its own because
the reader thread starts before the members declared after it are initialised.
Timeouts may happen at any moment, the host writes outputs at any moment, and the
broker may refuse, stop answering, lose the licence or die.

### WindowsBroker

The service thread alternates `cleanup_devices()` and one request; the
validation thread waits for its time. `mutex_` protects short stretches, which
are single steps; `opLock` is `license_operation_mutex_`, held across calls to
Polar and file writes. A licence operation goes through the labels `begin`,
`call`, `open_file`, `write_file`, `commit`, and for a validation
`schedule_...`, so that the other thread, a failure or the end of the process
can fall between any two of them. `saved` and `window` are the two files, with
what a torn write leaves; a write that fails may have left the file whole, a start may
find the file unreadable, and the boot marker may be that of the ended process alone.
`driver` is the set of devices that exist, whoever
knows of them: those of the driver go when their client's control handle is
closed, software devices when the broker's process ends.

Times are kept as the side of the limit they are on: `outage` is `recent` or
`long` (one hour), the `age` of a validation `current`, `lapsed` (25 hours) or
`unknown` (another Windows session), `attempt` an `interval` (24 hours) or a
`retry` (one minute) away or `due`, `window` `open` or `over` (five minutes).
A limit may pass at any moment, which allows every timing the clocks allow.
`Machines` says whether the broker runs on a user's own machine, where devices need
a licence and `window` is `none`, or on a GitHub Actions runner, where they may have
an evaluation instead.

### MacosLicense

`sessions[s]` is where a thread of `serve_client()` is: its gamepad is `authorized` by
`authorize_create()` but not yet made, `counted` in memory but not yet in the file, or
`serving`, when `Poll` asks `device_is_authorized()` at least once a second. `op` is the
holder of `operation_mutex_` with the copy of the licence it will write and how far it
is; what happens under `mutex_` is one step. `saved` is the file, whose writes are
atomic but may fail, also in the `chmod()` after the file was replaced, and whose deletion
may fail unnoticed. `age`, `outage` and `window` are times, as the side of their limits they
are on. `owed` counts what Polar does not know yet; `offline` of a session says that its
gamepad was authorised in an outage; `unsaved`, `undeleted` and `unguarded` (an operation
that counts as failed has replaced the file) record that one of the things has happened that
`FileIsMemory` allows for. `MCBrokers` puts the two brokers side by side: a behaviour
is one of either. `CountTrue` of `MCBrokers` compares the broker's count of licensed gamepads
with the sessions that have one.

### WindowsOutput

A client process has one control handle and one output thread, which keeps at most
one read on it, so a read goes by its client. `vhf[d]` is where
`LvhEvtVhfWriteReport()` of a device is: before `queue_output_event()` takes
`output_requests_mutex`, with a read in hand, or about to buffer its event again.
What happens under the mutex is one step; unmarking and completing a request, and
waiting for VHF in `delete_vhf_device()`, are steps of their own. `read[c]` is the
framework's view of a request (`sent`, `cancelable`, `canceling` once the cancel
routine is owed, `canceled` once it ran and left the request alone, `done`) and
`pending` the driver's vector. `cleanup` and `hardware` go through
`LvhEvtFileCleanup()` and `LvhEvtDeviceReleaseHardware()`, which
take devices and reads in opposite orders. `reader` is a turn of `output_loop()`: `wait` is
the wait for a read or the stop event, `drain` the wait for a read that it has
cancelled. A client may stop or die anywhere, the hardware may go at any time, and
the broker may destroy or reset devices while its clients live.

External, and modelled from how the code uses it: VHF, which calls back for one
output report of a device at a time and whose `VhfDelete` with wait returns when no
callback is left; and the framework, whose cancellation of a marked request and
whose unmarking exclude each other.

### WindowsInput

The submit requests of clients (`Submitters`), the host's output reports that a
Switch controller answers (`Writers`) and VHF's requests for a report (`Readiers`)
are threads. `waiting` and `latest` are `VhfInputReportQueue`; `ready`, `inFlight`
and `active` the fields of the device record that its spin lock guards, so what
happens under it is one step. `FindDevice`, `QueueReport`, `PrepareSubmission`,
`Submit` and `FinishSubmission` are `submit_input_report()` and the two halves
around `VhfReadReportSubmit()`, with `held[t]` the submission on the thread's stack.
`life` and `del` go through creation and `delete_vhf_device()`. A report is its
class, one `discrete` part for what may not be merged away, and its motion, whose
range `Reach` stands for 16 and 8 bits. A report of a mouse with more motion than
one report carries leaves in pieces.

### XboxInput and XboxOutput

The driver has one state for its one device. In `XboxInput` `pc` says where each of its
threads is: the broker in `Xbox360SoftwareDevice::create()` and then in its initialize
request, the client in a submit, the timer of the `pump`, and VHF. `context` is the
callback context of `SwDeviceCreate()`, `shared` until the callback has come or the
broker has `abandoned` it. `initialized`, `packet` and the `virtual_hid` fields have the
code's names; what happens under `mutex` is one step, what happens after it is released
is another, which is why `ReadInput` and `AnswerWait` are two. `waits` is a game's request
in `wait_input_queue`, `shutting` goes through `cleanup_driver_state()`. A report is its
packet number, since the driver keeps only the newest. `early` records that VHF asked for a report
before the handle was stored, `refused` that it refused one: after either the driver
promises less, and `NewestKept` and `InputArrives` say so.

`XboxOutput` is the other side: `setter` is `queue_rumble_output()` on the threads of
games, `reads` the client's read request, before it is in `output_queue` (`checked`) and
in it, `buffered` the one event that is kept. `crossed` records that one of two things has
happened that the code does not exclude: an event was buffered behind a read, or two
threads set levels at once. The two sides share nothing but the life of the device, of
which `XboxOutput` keeps a part.

### WindowsPid

`allocated`, `load` and `state` are `GenericPidFeatureState` in the driver, `effects`
and `device` `GenericPidRumbleState` in the client, `events` the stream between them.
`output` is `dispatch_output_report()` and `timer` `pid_timer_loop()`, each with what
it has computed but not yet told; `notified` says that `pid_timer_generation_` has
moved. `plan` is the host's own account of what should play, which shares nothing
with the code's: it counts the ticks each block has run. The host follows PID and
operates blocks it was given.

### LinuxDesktop and LinuxGamepad

In `LinuxDesktop` a call is one step, since the core's device mutex keeps calls
apart, but it ends at any of its writes: `Write` gives every prefix, and what the
class members (`buttons`, `remainder`, `contacts`, `slot`, `tool`) then hold is what the
code has assigned by then. `kernel` is what evdev and the X server hold; both drop
what a device has not announced. `held` and `travelled` are the client's own account.

In `LinuxGamepad` `client` is where the client's call is, `reader` the thread that
handles the kernel's events, `reporter` the one that repeats the last state for
PlayStation and Switch. `devices` is what the kernel has, `queue` what it wants of the
reader, `outstanding` its requests without an answer. Creation may fail at each of
its steps and falls back from uhid to uinput for the profiles that do. The effects of
a uinput gamepad go through the kernel's upload and erase requests (`defined`,
`effects`), are played and stopped, and end after their length (`playing`). Time ticks;
`updated` says that the reader has been awake since. The callback may close the
gamepad.

### WindowsKeys, WindowsDesktop and WindowsGamepad

`WindowsKeys` holds the tables of `keylayout.hpp` and `windows_backend.cpp`, all codes
of them, and the functions that choose among them. A client may name a key in four
forms, by its virtual key alone, normalized, with the native scan code preferred, or
with a scan code, and keeps to one of them for a device. `KeyOfInput`, `KeyOfModifier` and
`KeyOfUsage` are Windows' side: which keys an event or report is about. `MapVirtualKeyW()`
is the host's layout, and the model's host has the US layout.

In `WindowsDesktop` a call is one step, as on Linux. `api` says whether a keyboard or mouse
is a HID device of the driver or goes through `SendInput`; a HID keyboard sends the keys
that have no usage through `SendInput` too (`screen.typed` next to `screen.keys`). `pen`
and `touches` hold the pointer flags of the last frame, edges included; `Inject` is a
frame with every active pointer. `thread` is the one that repeats the frame every 50 ms:
it sleeps, looks whether it shall stop, and injects. Windows may refuse every injection,
after which the client goes on. A motion or scroll that takes several reports may fail
at any of them. `screen` is what Windows shows and `known` what the client last did with a
key, button or pointer, or `unknown` if that call failed.

In `WindowsGamepad` `call` goes through creation and `close()`, with the stop and join of
each thread apart. `streamer` and `listener` are the two threads, `copy` and `event` what
they carry between two locks. `arrived` is the last report the driver took, `accepted`
the last one whose `submit()` succeeded. The broker may refuse a creation, return no
transport, or fail to destroy the device (`leaked`).

### HidProfiles, ReportCodec and GamepadAdapter

A descriptor is the list of its fields and the sizes of its reports; a report is its
size and the bytes that are not zero. Sticks and triggers are counted in halves,
acceleration in g and rotation in hundreds of degrees a second, `NaN` is a value
that sticks and triggers drop and that touch contacts and motion keep until they are
rounded, where the builds give 0 (`Scale`), and a checksum is whether it is right. `pack_*`, `append_*`, `make_*` carry the names
of the code's functions and do what they do to bytes. `GamepadAdapter` adds the calls of
`GamepadStateAdapter`: each changes `state_`, submits it and leaves `accepted` alone if
the device is closed or refuses. `received` is the last report the host got.

The host's side is external and is what the code is measured against: `Read` takes a
report apart by the descriptor the device declared, or, where the descriptor only
says "vendor", by the layout of the driver that knows the controller
(hid-playstation, hid-nintendo, xpad); `HostReports` are orders in the formats those
drivers use, `handshake` their questions. `Meant` is said of the state alone.

## Runs

| Run | Instance | Question |
| --- | --- | --- |
| `runtime` | 2 threads with 3 calls each, 2 devices of 2 kinds | Are backend calls serialized, do handle and platform agree, does destruction close, do `close_all()` and the count miss nothing, does every call return, and does `Runtime` implement `DeviceContract`? 3 inputs: a contact placed, the end of another, a button |
| `macos` | client threads with 2 and 1 calls, 2 reports per submit, queue of 1, 2 outputs, a callback that may close | Does every message go where it belongs, is a closed gamepad quiet, does every call return as long as the callback leaves the gamepad alone, and does the HID device go? |
| `macos_callback_close` | as above | The comment at `macos_broker_client.cpp:111` says a callback may close its own gamepad. |
| `broker_safety` | Windows: own machine or runner, a yearly and a lifetime key, 2 activations, 1 device of either transport. macOS: a yearly and a lifetime key, 2 gamepads, 1 request or end of the broker | Is every existing device tracked, does no device stay whose licence was revoked or lapsed, is no usage lost; is the licence file the licence, is each gamepad counted by Polar, and does the broker know how many there are? |
| `broker_live` | Windows: 2 driver devices under one licence, or one in the evaluation of a runner. macOS: 2 gamepads, no requests | Do devices of revoked licences, of ended clients and evaluations, of an earlier broker and beyond the outage limit go although the driver refuses at first, and does validation go on? |
| `broker_retry` | 1 device, 1 lifetime key | `windows-driver.md:61-62` says temporary failures are retried about once a minute. |
| `broker_saved` | 1 device, 1 lifetime key | `windows-driver.md:67-70` says a lifetime licence lasts without a limit while Polar is unreachable. |
| `macos_offline` | 2 gamepads | `macos-gamepad.md:43-44` says creation in an outage is limited to one active gamepad. |
| `output_ownership` | 2 clients with a device each, 1 report | The comment at `libvirtualhid_umdf.cpp:1343`, about power transitions, says a pending read is kept "under driver ownership", and the client waits for every read it cancels. |
| `drivers` | UMDF driver: a gamepad, keyboard or mouse, 3 reports, 2 places in the queue; or 1 client, 2 devices, 2 output reports. Xbox 360 driver: 2 inputs and a waiting game; 2 threads of games and 2 levels | Is VHF's contract kept, are presses and releases complete and motion conserved while reports fit, is the newest input or level the one that is read; has each read of an output report one owner, do these come once and in order, does a cleanup leave nothing, and does everything arrive? |
| `backends` | Linux: each desktop device with 2 slots for 3 contacts and failing writes, each gamepad transport with 2 submits, 2 kernel requests, 1 effect. Windows: each desktop device through the driver or Win32, 9 keys of different kinds, room for 1 usage, 2 contacts; 4 kinds of gamepad, 2 reports, 2 outputs | Is what the host has of a device what the client did with it, does the host's state never go back, is what is felt what plays, is nothing left behind, do calls return? |
| `reports` | all 16 wires, 2 controls away from rest, NaN and values out of range; 3 PID reports over 3 ticks on 1 block | Does the host read what the client had accepted, does the client hear what the host orders, are drivers' questions answered; is what is felt what plays, and do driver and client agree on it? |

Why the bounds suffice. In `Runtime` a hazard needs a visitor of the vectors or the
creator or destroyer of a device, and a user of it, hence two threads; two devices of
two kinds make the order of the vectors and of the locks matter, and three calls are
needed to create, use and destroy; a contact placed, another that ends and a button are
the three ways an input changes the field that a getter returns. In `MacosGamepad` the second
report of a submit, a second submit after a timeout, and a queue that overflows
at its second output are the interesting cases. In `WindowsBroker` one device
and two activations let a key change or return while an order to revoke is
pending; two devices are needed for the outage limit and for a cleanup that
fails half-way. In `MacosLicense` two gamepads are what an outage must choose between, and
one request or end of the broker is enough to meet a validation or a count half-way; the
run about liveness leaves requests out, since a licence also goes by its validation. In
`WindowsOutput` two devices of one client are what contends for
one read and one buffer, and two reports are what can change their order; clients
share nothing but the removal of the hardware, so one is enough. In `WindowsInput`
three reports overfill a queue of two, merge, split and overtake each other. In
`XboxInput` a second input overwrites the one that waits, and three threads contend for
one report; in `XboxOutput` two threads and two levels are what can overtake each other,
and the proof covers any number. In `LinuxDesktop` a third contact finds no slot, and a scroll of one and one of three
units cross a detent of two both ways. In `WindowsDesktop` the keys are a letter, a
key and its twin on the keypad, modifiers of both sides, media and lock keys and two
that have no usage; with room for one usage two keys roll over; two contacts make one
frame about both; a motion of three times the range takes three reports. Two reports of
`WindowsGamepad` can be confused with each other, and two outputs overtake each other.
In `LinuxGamepad` two submits are what can be
shown in the wrong order, and one effect that is uploaded, played, ends and is
uploaded again is what its timing is about. In `ReportCodec` controls lie side by
side in a byte, so two at a time find an overlap, and two whole states set them all;
orders and questions touch no input, and are tried with everything else at rest. In
`WindowsPid` one block, started late, ending, repeated and paused, exercises all of
its clock arithmetic; its state `Prepared`, with which runs may begin, has an effect already made,
so that the few reports go into playing it.

Deadlock checking is off where threads or the environment have a
bounded number of calls and the system may really stop; the broker's runs check
it.

### What the violations show

* `macos_callback_close`: while one thread is in `close()`, holding the device
  mutex and joining the callback thread, the callback calls `close()` and waits
  for that mutex. Neither returns. The case the comment covers, a callback that
  closes on its own, works.
* `broker_retry`: the outcome of a validation is turned into a schedule after
  `license_operation_mutex_` was released. A validation on request that starts,
  fails and schedules its retry in that gap is overwritten by the earlier
  success of the validation thread, and the next attempt is 24 hours away.
* `broker_saved`: every save empties the only copy of the licence before it is
  written again. The end of the process in between leaves none.
* `output_ownership`: a VHF callback takes the read out of the vector, and then
  finds that its cancellation has begun. It buffers the event again and leaves the
  read to the cancel routine, which does not find it in the vector and leaves it
  too. Nobody completes it, so the client's `stop()`, which has cancelled the read
  and waits for it without a limit, does not return. Cleanup and removal of the
  hardware have the same gap.
* `macos_offline`: `authorize_create()` asks whether a gamepad is counted, and
  `add_device()` counts it when its HID device has been made. A second client that asks in
  between is authorised too, and both gamepads are served until the outage is an hour old.

### Fairness

`Runtime`: a thread inside the library keeps running, and a free mutex is taken
by some thread waiting for it (`WF` per thread); nothing is assumed of clients.
`MacosGamepad`: threads of client and broker run and messages that were sent
arrive; nothing makes the broker answer, timeouts expire because the code waits
with a limit. `WindowsBroker`: both threads run, calls to Polar end (they have
timeouts), a mutex asked for again and again is got, since its other user waits
a minute between its uses, the driver does not refuse the same request for
ever, and the validation timer expires. `MacosLicense`: an operation that has called Polar
goes on and the threads that serve gamepads run; that the validator runs is not even
needed. Nothing is assumed of clients, of Polar's
answers, or of ends and restarts; each liveness property of the broker holds as
long as it keeps running. `WindowsOutput`: VHF callbacks, deletions, the queue of
reads and the output thread run; nothing is assumed of the host, of the
application, or of cleanups, which only happen at the end of a client. `MCDrivers` states
this fairness for behaviours in which that machine runs (`OutputStep`), since its clients
read from the start; the others begin with nothing to do.
`WindowsInput`: a thread of the driver that has begun goes on, some thread of VHF asks
for the next report when VHF is ready, the host reads what VHF has, and a deletion
that has begun ends; nothing is assumed of clients or of who deletes the device.
`XboxInput`: the threads of broker and driver run, the timer fires, `SwDeviceCreate()` calls
back, VHF asks when it is ready, the host reads what VHF has, and a game waits again after
each answer; nobody has to submit or to remove the device. `XboxOutput`: requests that are
being handled go on, and the client reads again after each read.
`LinuxGamepad`: each thread runs and the callback returns; the reporter gets the state
mutex that it asks for again and again, because the client leaves it between calls
(`SF`). `WindowsDesktop`: the refresh thread runs and `close()` goes on. `WindowsGamepad`: both
threads run, the callback returns, `close()` goes on, a read that waits is ended by the
stop event, and a driver that is there takes a report of the stream now and then (`SF`
of a `SendCopy` that succeeds), since nothing else is between the thread and the driver.
The run `reports` checks safety only.

## Proofs

`RuntimeProofs` proves, for every number of threads, kinds, devices, inputs and
calls, from `RuntimeAssumption` only (there is a kind, bounds are natural
numbers, `None` is none of the values):

| Theorem | Establishes |
| --- | --- |
| `TypeCorrect` | `TypeOK`, which no run needs to check any more |
| `Serialized` | `BackendCallsSerialized` |
| `Agreement` | `HandleAgreesWithBackend`: counter, open flag and callback are the platform's, and which input each part of the last field is from |
| `Destruction` | `DestroyedIsClosed` |
| `HandlesTrue` | `HandlesAreTrue`, the two together |
| `CloseAll`, `Counting` | `CloseAllClosesRegistered`, `CountMissesNone` |
| `Registration` | `OpenIsRegistered` |
| `NothingMissed` | `NoneMissed`, the three together |
| `Refinement` | `ImplementsContract`, every step is a step of `DeviceContract` or a stutter |

All follow from `Invariance`: `Spec => []IInv`. The properties are not inductive:
that a device that `close_all()` has passed stays closed needs to know that an
open device has been registered once and cannot be opened again, which needs to
know that an id belongs to one creation. `IInv` adds this in layers, each proved
to be preserved by every action from those before it: `TypeInv` (types, and that
an argument fits its operation), `LockInv` (a mutex is held by exactly the thread
inside its section), `CreationInv` (ids in creation are fresh, belong to one
thread and are unknown to everybody else; vectors hold only devices that were
created, once), `AgreeInv` (fields and platform differ only between the backend
call and the assignments under the same mutex), `VisitInv` (what a visit has
behind it is closed, or counted), and `OpenIsRegistered`.

`MacosGamepadProofs` proves, for every set of clients and every bound on calls, outputs,
queued outputs and reports of a submit, from `MacosAssumption` only (a submit has a
report, the queue has room for an output, the worker is not a client, `None` is neither):

| Theorem | Establishes |
| --- | --- |
| `MacosTypeCorrect` | `TypeOK` |
| `MessagesKeptApart` | `MessagesMatch`: answers belong to their requests, what a submit counts was accepted, outputs come in order |
| `ClosedStaysQuiet` | `ClosedIsQuiet` |

`MessagesMatch` fails to be inductive where a late answer could be taken for one's own.
`LifeInv` and `OneRequest` rule that out: as long as the socket is in use one request at
most is in it, or its answer, and a thread waits for it with the mutex held; a timeout
shuts the socket down before the mutex is given up. `AcceptedInv` follows a submit
through its reports, and `OrderInv` the outputs through socket, queue and callback.

`BrokersProofs` proves about `WindowsBroker`, for every set of clients, keys and kinds and every bound on
devices and activations, from `BrokerAssumption` (yearly keys are keys, kinds and
machines are those of the code, bounds are natural numbers) and `NoneIsNoLicence`
(`None` is no licence record):

| Theorem | Establishes |
| --- | --- |
| `BrokerTypeCorrect` | `TypeOK` |
| `NoDeviceForgotten` | `DriverDevicesTracked` |
| `NoDeviceUncovered` | `LicensedDevicesAreCovered` |
| `NoUsageLost` | `UsageNotLost` |

Here `ThreadInv` says which thread may be where and that one of them holds the mutex of
licence operations, `DraftInv` that a thread inside an operation works on the licence it
started from except for usage that the other thread recorded meanwhile, and `CountInv`
that usage never exceeds devices. `JobCovered` is what `LicensedDevicesAreCovered`
lacks: the validation thread may drop the licence between the authorisation and the
registration of a device, and only the order to revoke covers the device then.

The second half of `BrokersProofs` is about `MacosLicense`, which it sees as the instance
`Macos` of `MCBrokers`. It proves, for every set of sessions and keys and every bound, from
`LicenseAssumption`:

| Theorem | Establishes |
| --- | --- |
| `LicenseTypeCorrect` | `TypeOK` |
| `FileFollowsMemory` | `FileIsMemory` |
| `UsageStaysPending` | `UsagePending` |

`CountsAreTrue`, in the composition, establishes `CountTrue`: what the limit in an outage is
decided by is the number of gamepads between `add_device()` and `remove_device()`.

The file is written under another mutex than memory, in two steps: `OperationInv` says
what the copy of an operation under way still has in common with memory, `FileInv` what
the file is at each of its steps, and `UsageInv` adds the count that the file must hold.
`MacosCountInv` bounds counts by the gamepads authorised, through the cardinality of the sets
of sessions that are served or promised one; `SessionInv` ties a session that is being
counted to the operation that counts it.

The third part carries these over to the composition of the runs, where one of the two
brokers runs and the other keeps its variables: `BrokersTypesCorrect` states `TypesOK`
and `LicencesKept` states `LicenceKept`.

`WindowsOutputProofs` proves, for every set of clients and devices, every ownership
of devices and any number of output reports, from `OutputAssumption` only (`Owner`
is a function into the clients, the bound is a natural number):

| Theorem | Establishes |
| --- | --- |
| `OutputTypeCorrect` | `TypeOK` |
| `OneOwnerHolds` | `OneOwner`: no read request is completed twice |
| `CleanupComplete` | `CleanedUp`: what a cleanup leaves |
| `ReportsComeInOrder` | `ReportsInOrder`: every output report arrives once and in order, and while a client stops none twice or late |

Again all follow from an inductive invariant in layers. `TypeInv` adds to the types
that a callback carries an event of its own device. `OwnerInv` adds to `OneOwner`
that a client between two turns has no read outstanding, or else a new read could
be one that a thread of the driver still holds; types and owners need each other,
since a request completed twice would be `done` and in the vector. `CleaningInv`
says what a cleanup relies on: its client sends no more reads, no device comes to
the handle, and a device that is gone calls back no more. From it, a callback that
comes after the cleanup belongs to a device destroyed by request, which is the
exception `CleanedUp` states.

For the order of reports `FlowInv` follows a report from the callback, through the buffer
or directly, to the completed read and to the client. `OrderInv` says that the numbers in
each of these places are later than those in the places ahead, and that for a client
nobody disturbs none is missing. What could break it is a callback that has taken a read
while an event of its device is buffered, which would then be overtaken. `NothingBefore`
excludes that: a read waits only while the buffer is empty (`WaitsForEvent`), and the
other way back into the buffer, after a cancellation, is taken only when the read
will never be completed by anybody (`Forsaken`). The lemma `Joined` says what the numbers
and the order of a concatenation are, for all sequences; it needs no induction, because
`ReportsInOrder` speaks of positions.

`DriversProofs` is about three of the machines that `MCDrivers` puts side by side, where one of
the four runs and the others keep their variables. It proves, for every set of
threads, kinds and levels and every bound on reports, packets and the queue, from
`InputAssumption`, `PacketsAssumption` and `LevelsAssumption` only (the queue has room
for two reports, bounds are natural numbers, levels are numbers from 0):

| Theorem | Establishes |
| --- | --- |
| `DriversTypesCorrect` | `TypesOK` |
| `ContractKept` | `WindowsContractKept`: what the two drivers promise VHF, and the context that `SwDeviceCreate()`'s callback refers to |
| `InputReportsKept` | `ReportsKept`: presses, releases and contacts are complete while reports fit, the newest state is known even when they do not, and motion is conserved |
| `NewestInputKept` | `NewestKept` of `XboxInput`, the part of it about the other driver |
| `NewestLevelsNotLost` | `NewestNotLost` of `XboxOutput`: the levels a game set last are with their handler, in the buffer or with the client, and nothing else waits behind them |

That VHF gets one report for each time it asked is not inductive, since the report is
prepared under the mutex and handed over outside of it. `RequestHeld`
(`GrantInv` in `XboxInput`) says where a request is meanwhile: VHF has asked, or it is the
driver's `ready`, or that of the one thread that submits. `BufferHeld` adds that the
record refers to the buffer of that thread, or of VHF, and that no other thread has the
same one, since numbers of buffers are new. `SubmissionsCounted` (`ReportsCounted`) says
that the counter is the number of threads inside, for `WindowsInput` as the cardinality
of a set of threads, so that a deletion that has seen 0 finds nobody inside. Of the
queue, `QueueTypes` bounds the sum of the lengths of its three lists while reports are
pushed, merged and dropped. For the Xbox 360 driver `StartInv` says what cannot have
happened before the broker has queued the first report, which is why that report needs
no lock, and `OrderInv` that reports grow, from the input that waits, through the
threads, to VHF.

Room for two is what the code has with its `vhf_max_pending_input_reports` of 32, and what
`ReportsKept` needs: with room for one, a report that finds a reply in the queue would push
out the newest reply.

`ReportsKept` compares what was sent with what VHF has got by selecting the reports of one
class, then their transitions, and by adding up their motion, and it is far from inductive:
it says nothing of the order in a queue from which the oldest is dropped and the newest
merged. `StreamInv` adds that the reports of a class in the queue are in the order of their
numbers (`Sorted`), and states the property for every class as `Kept`: what is `Before` the
queue, accepted by VHF or in a thread's hands, followed by what waits, has the transitions
of what was sent, ends with the newest report or with the one a reply has pushed out, and
with what was lost moves as far. The lemmas `PushKept`, `PushMoves` and `PushSorted` show
that `push()` keeps it, whichever report it joins, splits off or drops, and `TakenKept`,
`TakenMoves` and `TakenSorted` that `pop()` does. They rest on what selecting and adding up
do to `Append` and to `\o`, for all sequences. These are recursive functions over the
length of a sequence; `SequenceProofs` shows that such a fold exists, has the type of its
step and takes one step more for one element more. It uses induction in the form of a
statement about sets, since the induction theorems of the library are about operators,
which no proof here can give them: a set of numbers that contains 0 and with a number the
next contains all, because the order of numbers is well-founded.

`NewestNotLost` of `XboxOutput` is not inductive either: an event is handed to a read that
waits, and the older one must not be in the buffer then. `RumbleInv` adds to the types
that, until something crosses, at most one handler has an event, that this event is the
newest, and that a read waits only while the buffer is empty.

`BackendsProofs` is about the gamepads and the desktop devices of `MCBackends`; one device
of one backend runs and the others keep their variables. It proves, for every profile, any
set of contacts, slots, motions and distances, any size of a detent or a report, and every
bound on states, orders, ticks and outputs, what the table lists. It assumes
`BackendsAssumption` (effects, lengths and counts are natural numbers, an effect is played
at least once, profiles and kinds are those of the code, sizes are not 0, the pen is not a
contact) and, of the keys followed on Windows, `KeysAssumption`: in each form each of them
is itself for Windows and none of the others. That is a fact about the tables of
`WindowsKeys`, which TLC evaluates, for the keys of the run and, as `NearlyAllKeysApart`,
for all virtual keys but eight: the generic Shift, Control and Alt, which are also one of
their two sides, and Cancel, Clear and three OEM keys, which share a code with another key.

| Theorem | Establishes |
| --- | --- |
| `NewestIsShown` | `HostShowsNewest` |
| `NothingIsLeft` | `OneDeviceLeft` |
| `WhatPlaysIsFelt` | `FeltIsPlaying` |
| `PointersAreTrue` | `PointersTrue` |
| `ActionsAreShown` | `ActionsShown` |

`MutexHeld` and `NewestShown` say that whoever makes a report has the mutex, so that what
the reporter has packed is still what is remembered. `DeviceFollowsClient` and
`ThreadsFollowCall` say which devices and threads there are at each step of a creation
and of `close()`. `FeltIsPlaying` speaks only of moments at which the reader has caught
up, and is far from inductive: in between, orders wait in the queue, effects end, and an
upload may find one that has ended without having been noticed. `OrdersLead` says of
every effect that there is a way from what the reader has (`Seen`) to what the host has
(`Host`), with one step (`After`) for each order in the queue. An order the host gives is
a step more at the end of the way, `HostGoesOn`; one the reader reads is the first step
gone, `ReadKeepsTime`. The way is a function that exists, so nothing is computed along the
queue and no induction is needed. `EffectsTimed` says when the reader may still take for
active what is over: only until it looks at the clock, which it has to after an upload.

`PointersTrue` speaks of what Windows shows. What it shows next depends on the flags the
library keeps, since a frame holds all contacts and the refresh sends it again, so
`ContactsShown` and `PenShown` say of both that they agree with what the client did: the
flags of every slot would place its contact where the last call that succeeded put it, no
contact without a slot is shown, one whose call failed keeps its slot, and the edges are
gone unless a call has failed. Nothing can be said of a contact whose own call failed, but
the failure does not spread to the other contacts in the frame that failed. `Put` and
`Removing` say what a placement and a release do to the slots.

`ActionsShown` compares what a Linux node shows with what the client holds, after calls
that are sequences of events, of which any prefix may be written. What a node has after a
sequence is the fold `After`; `AfterParts` proves of all sequences, by the induction of
`SequenceProofs`, that parts which no event names are left alone (`Alone`) and that a key
is as its last event says (`KeysLast`). Each call is then described by what its events name
and how they end, not by the events: a tap leaves its key up, a change of tool puts the old
one away, a scroll turns whole detents. Placing and releasing a contact are followed
through three parts, the slot, the touch and the position, since where an event goes
depends on the slot that was selected before. The property is not inductive because a new
contact takes a slot that is free for the library, which must then be free in the kernel:
`TouchesThere` says that the slots that hold a touch are the ones the library has given
away, that no two contacts share one, and which slot both take for selected; `PenThere`
does the same for tools, `WheelTurned` accounts for every unit that was scrolled. A call
that fails is the end of what is claimed, as in the property, but not of the shape of the
node (`DesktopShape`), which the next device starts from.

Of the keys on Windows `KeysShown` says that a key goes by exactly one way, the report or
`SendInput`, that what the report holds is what the client pressed by a call that succeeded
or that failed for it, and that the screen shows the report unless it had no room. That a
release finds what its press left is the assumption above. `MotionKept` says of the loops
that split a motion or a scroll, for any number of reports, that what was sent and what is
left are the whole (`ReportedWhole`).

`ReportsProofs` is about force feedback, in `WindowsPid`. `EffectsAreRight` proves
`EffectsAgree` of the module, and `EffectsAgreeAlways` of `ReportsSpec`, which the run checks
and which may begin in `Prepared`, for any number of blocks, any durations, delays and loop
counts and any bounds, from `PidAssumption` only (numbers are natural, there is a block,
an effect is played at least once). `FeltIsCurrent` and `StatesAgree` speak of the moments at
which both threads are quiet, so the invariant `PidInv` is about what is true on the way:

* `PlansFollowed`: every effect is scheduled as the host asked. `Follows` says how the
  times of the code (`start`, `end`, `operated`) and the ticks that the history counts
  belong together, an effect that was not yet marked as ended being one whose plan is over.
  It holds at the time effects have reached (`Reached`), which stands still in a pause; a
  timer that uses an old time may mark less, and never too much (`ExpiredFollows`).
  What is started or changed in a pause is excepted, as in the property.
* `TimerKnows`: unless the timer has been notified or the output thread is about to, it
  sleeps until the next transition of the effects as they are, or computes with marks
  that are no newer than its clock, and the strength told last is that of the marks. So
  a step of the output thread that changes a transition must come with a notification.
* `ToldLast`: the strength remembered is the one the application has heard, or is with
  the one thread that will say it; `NothingYet`: before there is a callback nothing runs.
* `DriverLeads`: the last of the reports still on their way that says something of the pause, of
  the actuators or of a free block (`Leads`) says what the driver says already; without
  any, the client says so. A report queued becomes the last word, and one handled was the
  first, for all sequences (`LeadsAppend`, `LeadsTail`); both are about positions and need no
  induction.

Only model-checked: all liveness properties (liveness under fairness and `ENABLED` are
outside what the prover can do); the types of the variables
of `MCBackends`; and of `reports` the types, and the codec with the adapter, whose properties are about
particular tables, bits and bytes, each of which TLC computes.

## Behaviour worth knowing

What follows is what the code does besides the violations above. The properties allow it,
and say so where they do. The first two differ from what a text of the repository says.

* **The last contact.** `runtime.hpp:588` calls what `last_submitted_contact()` returns "the
  most recently submitted touch contact". The release, cancellation or departure of a
  contact sets only the `id` of what it returns (`runtime.cpp:922` and its siblings), so
  after contacts 1 and 2 were placed and 1 was released it returns the id of 1 with the
  position of 2, which nobody submitted. `Agreement` says exactly what it returns.
* **Retries on macOS.** `macos-gamepad.md:42-43` says temporary failures are retried about
  once a minute. The thread validates when the last *success* is 24 hours old (`Due`). A
  validation on request that fails earlier begins an outage, which limits creation and
  after an hour closes all gamepads but one, and the thread looks into it only when those
  24 hours are over. `ValidationGoesOn` is about the Windows broker.

* **Force feedback on Windows.** An effect that is started or changed during a pause is
  timed from before the pause once the host continues (`early` in `FeltIsCurrent`).
  *Create New Effect* has the number of *Set Effect* and is too short for it, so it
  changes nothing. Outputs that come before the application sets its callback are
  lost.
* **Linux input.** After a write that fails the host may keep a key or a contact:
  `select_slot()` remembers the slot before it is written, a contact may exist without
  having been announced, a text may end with its modifiers down, and typing releases
  Ctrl and Shift that the client holds. The model only closes a device after a failed
  write; `NothingStuck` is about calls that succeed. Effects other than rumble are
  ignored, and one that is uploaded anew within the 100 ms before its end is noticed
  plays on.
* **Windows keyboard.** By scan code F24 (118), PrintScreen (84), Help, Sleep and the
  browser and media keys have no usage, so a HID keyboard sends them through `SendInput`; a
  client that names such a key once with and once without its scan code leaves it down.
  Cancel has the usage of Scroll Lock and Clear that of keypad 5. With more than 16 keys
  down the report says so, and the host keeps what it had. Keys and buttons that
  `SendInput` pressed stay down when their device is closed.
* **Windows pointers.** After an injection that fails the flags of the frame stay, and the
  refresh repeats them, edges included: a touch may begin late, and begin twice. A contact
  whose release failed and that is placed again keeps its UP flag. A pen whose release
  failed is not refreshed, and stays shown until the next call. A pen button drops the
  edges of an earlier call even if its own injection fails, so a DOWN may be lost. A
  contact that is lifted to hovering, or released with `leave`, gets no UP.
* **macOS licences.** A licence whose file could not be deleted is
  back after a restart, until Polar answers (`undeleted`); one whose file was replaced but
  not protected is back although its activation or validation failed (`unguarded`). Usage
  that is pending when the key is changed or deactivated is not reported, and usage that
  Polar has counted without its answer arriving is reported twice.
* **Windows gamepads.** If the broker fails to destroy a device at `close()` it exists
  until its client ends. Outputs that come before `set_output_callback()` are dropped. The
  callback of an Xbox 360 gamepad runs on the thread that `close()` joins, so it must not
  close its own gamepad.
* **Xbox 360 driver.** A rumble event is offered to the reads that wait outside of the
  mutex, and so are reads to the buffer: an event may be buffered behind a read that
  waits, or two threads may set levels in one order and report them in the other. The
  client then reads the older one last, and the motors keep it until a game sets a new
  level (`crossed`, which `NewestNotLost` and `ReportsArrive` except). If VHF asks for its
  first report between `VhfStart()` and the store of the handle, the driver forgets it and
  no HID report is ever submitted (`early`, excepted likewise); games that use XUSB still
  get the input. When VHF refuses a report the submit fails, but the same input submitted
  again is taken as unchanged and succeeds without reaching VHF.
* **Switch replies** carry a neutral state until the next periodic report.
* **Reports.** The duration of an effect is ignored on the generic and Xbox path. The
  checksum of a DualShock 4 report over Bluetooth is looked at only if the report says
  it has one. A PlayStation report without flags means that rumble stops. Opposite
  directions of the d-pad cancel on some profiles and are passed on by others. A
  battery error of a DualShock 4 is a full battery to hid-playstation. The scale of the
  DualSense's sensors is slightly off its calibration, by less than the units here
  resolve.

## Not modelled

* Names and texts, device nodes, sequence numbers and timestamps in reports.
* Keyboard and mouse of macOS: CoreGraphics calls. Of Windows the typed text, absolute
  motion and the geometry of pointers, and the change of the input desktop, whose second
  attempt is part of an injection; scan codes that carry their prefix.
* Request validation, access control lists, encryption of files and tokens.
* Pipe framing and service control of the Windows broker; accept loop and
  status requests of the macOS broker, and the answers of both to licence requests.
* Reuse of descriptor numbers, handles or process ids by the operating system.
* A reload of the Windows driver while the broker runs.
* Envelopes and effect types other than constant and sine, which the code ignores.
* The limitless growth of `buffered_output_events`.
* The answers of the Xbox 360 driver that change nothing (information, capabilities,
  battery, LED), the names of its device and the wait for its interface.
* The driver installer, trace logs, command-line tools.

## Plan

The core first, then the parts where processes meet, then the drivers, then the
algorithms.

1. Done: `DeviceContract`, `Runtime`, `MacosGamepad`, `WindowsBroker`, `MacosLicense`,
   `WindowsOutput`, `WindowsInput`, `XboxInput`, `XboxOutput`, `WindowsPid`,
   `LinuxDesktop`, `LinuxGamepad`, `HidProfiles`, `ReportCodec`, `GamepadAdapter`,
   `WindowsKeys`, `WindowsDesktop`, `WindowsGamepad`; proofs about the first ten, the
   gamepads and the desktop devices.
2. `MacosDesktop`: buttons, clicks and keys of the macOS backend.
3. `XboxOutput` composed with `WindowsGamepad` in place of its `pipe`, so that a level is
   followed from the game to the callback.
4. An abstract specification of the broker (`DeviceLease`: who may own a device,
   and when it must go), with `WindowsBroker` shown to implement it; the driver
   module composed with it in place of the set `driver`.
