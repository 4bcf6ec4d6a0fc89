------------------------------ MODULE Runtime ------------------------------
(***************************************************************************)
(* The portable core: Runtime and its device handles (core/runtime.cpp),   *)
(* called by any number of client threads.                                 *)
(*                                                                         *)
(* A runtime mutex guards the id counter and the six vectors of weak       *)
(* pointers; every device has a mutex of its own, held across each backend *)
(* call.  A step of the model is a stretch of code between two points      *)
(* where another thread can be seen to interfere: taking a mutex, a        *)
(* backend call (which may block or fail), releasing the mutex.            *)
(*                                                                         *)
(* The backend (BackendGamepad and its siblings) is the environment: it    *)
(* accepts or refuses an input, and its close() succeeds or fails.         *)
(***************************************************************************)
EXTENDS Naturals, Sequences, FiniteSets

CONSTANTS
  Threads,     \* client threads
  NumKinds,    \* device kinds, in the order close_all() visits their vectors
  Inputs,      \* states or events a client submits
  ContactEnds, \* of these, a contact's release, cancellation or departure
  Unkept,      \* of these, a text and the buttons of a trackpad or pen tablet
  Contacts,    \* ids of contacts
  ContactOf,   \* ContactOf[i]: the contact that input i names
  Callbacks,   \* output callbacks a client installs
  None,        \* no thread, no input, an empty callback
  MaxDevices,  \* bound: device ids handed out
  MaxCalls     \* bound: calls a thread makes

ASSUME RuntimeAssumption ==
  /\ NumKinds \in Nat \ {0}
  /\ MaxDevices \in Nat
  /\ MaxCalls \in Nat
  /\ None \notin Threads \cup Inputs \cup Callbacks
  /\ ContactEnds \cup Unkept \subseteq Inputs
  /\ ContactEnds \cap Unkept = {}
  /\ ContactOf \in [Inputs -> Contacts]

Kinds == 1..NumKinds
GamepadKind == 1              \* the only kind with an output callback
Whole == Inputs \ (ContactEnds \cup Unkept)
Ids == 1..MaxDevices

VARIABLES
  runtimeLock,   \* holder of RuntimeState's mutex
  nextDeviceId,  \* RuntimeState::next_device_id
  registry,      \* the weak_ptr vectors, in the order of their emplace_back
  kind,          \* kind[d]: which vector d belongs to
  handle,        \* handle[d]: the client's unique_ptr to the device
  deviceLock,    \* deviceLock[d]: holder of the device's mutex
  open, last, submitted, callback,  \* the fields of device d
  phase,         \* phase[d]: the platform device behind d
  delivered,     \* the last input the backend of d accepted
  named, placed, \* the last of them that named a contact, the last whole one
  accepted,      \* how many inputs it accepted
  installed,     \* the output callback it was given
  pc,            \* pc[t]: where thread t is
  frame,         \* frame[t]: operation, device and argument of t's call
  todo, counted, \* devices t has still to visit, and has counted as open
  inCallback,    \* inCallback[t]: device whose output callback t runs
  calls          \* calls[t]: calls t has made

creation == <<nextDeviceId, registry, kind>>
device == <<open, last, submitted, callback>>
history == <<delivered, named, placed, accepted>>
backend == <<phase, delivered, named, placed, accepted, installed>>
visit == <<todo, counted>>
vars == <<runtimeLock, deviceLock, creation, handle, device, backend,
          pc, frame, visit, inCallback, calls>>

HandleOps == {"submit", "set_output_callback", "dispatch_output", "close"}
Labels == {"idle", "want", "create", "register", "submit", "commit",
           "set_output_callback", "close", "close_all", "close_wait",
           "close_one", "count", "count_wait"}
Frames == [op : HandleOps \cup {"none"}, dev : Ids \cup {0},
           arg : Inputs \cup Callbacks \cup {None}]

Frame(op, d, arg) == [op |-> op, dev |-> d, arg |-> arg]
NoFrame == Frame("none", 0, None)

TypeOK ==
  /\ runtimeLock \in Threads \cup {None}
  /\ nextDeviceId \in 1..(MaxDevices + 1)
  /\ registry \in Seq(Ids)
  /\ kind \in [Ids -> Kinds]
  /\ handle \in [Ids -> {"none", "held", "destroying", "gone"}]
  /\ deviceLock \in [Ids -> Threads \cup {None}]
  /\ open \in [Ids -> BOOLEAN]
  /\ last \in [Ids -> [id : Contacts \cup {None}, rest : Inputs \cup {None}]]
  /\ submitted \in [Ids -> Nat]
  /\ callback \in [Ids -> Callbacks \cup {None}]
  /\ phase \in [Ids -> {"none", "open", "closed", "leaked"}]
  /\ delivered \in [Ids -> Inputs \cup {None}]
  /\ named \in [Ids -> Inputs \cup {None}]
  /\ placed \in [Ids -> Inputs \cup {None}]
  /\ accepted \in [Ids -> Nat]
  /\ installed \in [Ids -> Callbacks \cup {None}]
  /\ pc \in [Threads -> Labels]
  /\ frame \in [Threads -> Frames]
  /\ todo \in [Threads -> SUBSET Ids]
  /\ counted \in [Threads -> SUBSET Ids]
  /\ inCallback \in [Threads -> Ids \cup {0}]
  /\ calls \in [Threads -> 0..MaxCalls]

Init ==
  /\ runtimeLock = None
  /\ nextDeviceId = 1
  /\ registry = <<>>
  /\ kind = [d \in Ids |-> GamepadKind]
  /\ handle = [d \in Ids |-> "none"]
  /\ deviceLock = [d \in Ids |-> None]
  /\ open = [d \in Ids |-> FALSE]
  /\ last = [d \in Ids |-> [id |-> None, rest |-> None]]
  /\ submitted = [d \in Ids |-> 0]
  /\ callback = [d \in Ids |-> None]
  /\ phase = [d \in Ids |-> "none"]
  /\ delivered = [d \in Ids |-> None]
  /\ named = [d \in Ids |-> None]
  /\ placed = [d \in Ids |-> None]
  /\ accepted = [d \in Ids |-> 0]
  /\ installed = [d \in Ids |-> None]
  /\ pc = [t \in Threads |-> "idle"]
  /\ frame = [t \in Threads |-> NoFrame]
  /\ todo = [t \in Threads |-> {}]
  /\ counted = [t \in Threads |-> {}]
  /\ inCallback = [t \in Threads |-> 0]
  /\ calls = [t \in Threads |-> 0]

-----------------------------------------------------------------------------
(* Calls and returns.  A thread that runs an output callback is idle in    *)
(* the model: the callback may make any further call of its own.           *)

MayCall(t) == pc[t] = "idle" /\ calls[t] < MaxCalls

Call(t, label, locals) ==
  /\ MayCall(t)
  /\ calls' = [calls EXCEPT ![t] = @ + 1]
  /\ pc' = [pc EXCEPT ![t] = label]
  /\ frame' = [frame EXCEPT ![t] = locals]

Goto(t, label) ==
  /\ pc' = [pc EXCEPT ![t] = label]
  /\ UNCHANGED <<frame, calls>>

Return(t) ==
  /\ pc' = [pc EXCEPT ![t] = "idle"]
  /\ frame' = [frame EXCEPT ![t] = NoFrame]
  /\ UNCHANGED calls

\* Faulty variant: the mutex does not exclude.
LockShared(t, d) == deviceLock' = [deviceLock EXCEPT ![d] = t]

Lock(t, d) ==
  /\ deviceLock[d] = None
  /\ deviceLock' = [deviceLock EXCEPT ![d] = t]

Unlock(d) == deviceLock' = [deviceLock EXCEPT ![d] = None]

Registered == {registry[i] : i \in DOMAIN registry}

-----------------------------------------------------------------------------
(* Runtime::create_gamepad and its siblings: the id is taken under the     *)
(* runtime mutex, the backend device is created with no mutex held, and    *)
(* the new device is appended to its vector under the mutex again.         *)

CreateAllocate(t, k) ==
  /\ runtimeLock = None
  /\ nextDeviceId <= MaxDevices
  /\ Call(t, "create", Frame("none", nextDeviceId, None))
  /\ nextDeviceId' = nextDeviceId + 1
  /\ kind' = [kind EXCEPT ![nextDeviceId] = k]
  /\ UNCHANGED <<runtimeLock, deviceLock, registry, handle, device, backend,
                 visit, inCallback>>

CreateBackend(t) ==
  /\ pc[t] = "create"
  /\ phase' = [phase EXCEPT ![frame[t].dev] = "open"]
  /\ open' = [open EXCEPT ![frame[t].dev] = TRUE]
  /\ Goto(t, "register")
  /\ UNCHANGED <<runtimeLock, deviceLock, creation, handle, last, submitted,
                 callback, history, installed, visit, inCallback>>

\* The id of a failed creation is not handed out again.
CreateFails(t) ==
  /\ pc[t] = "create"
  /\ Return(t)
  /\ UNCHANGED <<runtimeLock, deviceLock, creation, handle, device, backend,
                 visit, inCallback>>

CreateRegister(t) ==
  /\ pc[t] = "register"
  /\ runtimeLock = None
  /\ registry' = Append(registry, frame[t].dev)
  /\ handle' = [handle EXCEPT ![frame[t].dev] = "held"]
  /\ Return(t)
  /\ UNCHANGED <<runtimeLock, deviceLock, nextDeviceId, kind, device, backend,
                 visit, inCallback>>

-----------------------------------------------------------------------------
(* Calls through a handle.  The thread first waits for the device mutex;   *)
(* with_device() then keeps it until the operation returns.                *)

Uses(t, d) ==
  \/ /\ frame[t].dev = d
     /\ pc[t] \in {"want", "submit", "commit", "set_output_callback", "close"}
  \/ inCallback[t] = d

CallHandle(t, d, op, arg) ==
  /\ handle[d] = "held"
  /\ Call(t, "want", Frame(op, d, arg))
  /\ UNCHANGED <<runtimeLock, deviceLock, creation, handle, device, backend,
                 visit, inCallback>>

\* ~Gamepad: the owner destroys the handle while no other thread is in it.
CallDestroy(t, d) ==
  /\ handle[d] = "held"
  /\ \A u \in Threads \ {t} : ~Uses(u, d)
  /\ handle' = [handle EXCEPT ![d] = "destroying"]
  /\ Call(t, "want", Frame("close", d, None))
  /\ UNCHANGED <<runtimeLock, deviceLock, creation, device, backend, visit,
                 inCallback>>

\* Thread t's call of op gets the mutex of its device.
Enter(t, op) ==
  /\ pc[t] = "want"
  /\ frame[t].op = op
  /\ deviceLock[frame[t].dev] = None

\* Faulty variant: the destructor leaves the handle in a state of its own.
ReleaseDangling(d) ==
  handle' = [handle EXCEPT ![d] = IF @ = "destroying" THEN "dangling" ELSE @]

\* The destructor lets go of the device when its close() is done.
Release(d) ==
  handle' = [handle EXCEPT ![d] = IF @ = "destroying" THEN "gone" ELSE @]

\* Faulty variant: the open flag is not looked at.
SubmitUnchecked(t) ==
  /\ Enter(t, "submit")
  /\ Lock(t, frame[t].dev)
  /\ Goto(t, "submit")
  /\ UNCHANGED <<runtimeLock, creation, handle, device, backend, visit, inCallback>>

Submit(t) ==
  /\ Enter(t, "submit")
  /\ open[frame[t].dev]
  /\ Lock(t, frame[t].dev)
  /\ Goto(t, "submit")
  /\ UNCHANGED <<runtimeLock, creation, handle, device, backend, visit, inCallback>>

SubmitClosed(t) ==
  /\ Enter(t, "submit")
  /\ ~open[frame[t].dev]
  /\ Return(t)
  /\ UNCHANGED <<runtimeLock, deviceLock, creation, handle, device, backend,
                 visit, inCallback>>

\* Faulty variant: an error path returns without releasing the mutex.
SubmitFailsLocked(t) ==
  /\ pc[t] = "submit"
  /\ Return(t)
  /\ UNCHANGED <<runtimeLock, deviceLock, creation, handle, device, backend,
                 visit, inCallback>>

\* The report cannot be packed or the backend refuses the input: no update.
SubmitFails(t) ==
  /\ pc[t] = "submit"
  /\ Unlock(frame[t].dev)
  /\ Return(t)
  /\ UNCHANGED <<runtimeLock, creation, handle, device, backend, visit, inCallback>>

SubmitAccepted(t) ==
  LET d == frame[t].dev
      i == frame[t].arg
  IN
  /\ pc[t] = "submit"
  /\ delivered' = [delivered EXCEPT ![d] = i]
  /\ named' = [named EXCEPT ![d] = IF i \in Unkept THEN @ ELSE i]
  /\ placed' = [placed EXCEPT ![d] = IF i \in Whole THEN i ELSE @]
  /\ accepted' = [accepted EXCEPT ![d] = @ + 1]
  /\ Goto(t, "commit")
  /\ UNCHANGED <<runtimeLock, deviceLock, creation, handle, device, phase,
                 installed, visit, inCallback>>

\* Faulty variant: the end of a contact replaces the contact's state too.
KeptWhole(field, i) ==
  IF i \in Unkept THEN field ELSE [id |-> ContactOf[i], rest |-> i]

\* What an accepted input leaves in the field that the getter returns: itself,
\* if it ends a contact the contact's id only, or nothing.
Kept(field, i) ==
  CASE i \in Whole       -> [id |-> ContactOf[i], rest |-> i]
    [] i \in ContactEnds -> [field EXCEPT !.id = ContactOf[i]]
    [] OTHER             -> field

SubmitCommit(t) ==
  /\ pc[t] = "commit"
  /\ last' = [last EXCEPT ![frame[t].dev] = Kept(@, frame[t].arg)]
  /\ submitted' = [submitted EXCEPT ![frame[t].dev] = @ + 1]
  /\ Unlock(frame[t].dev)
  /\ Return(t)
  /\ UNCHANGED <<runtimeLock, creation, handle, open, callback, backend, visit,
                 inCallback>>

\* Allowed on a closed device too.
SetOutputCallback(t) ==
  /\ Enter(t, "set_output_callback")
  /\ Lock(t, frame[t].dev)
  /\ callback' = [callback EXCEPT ![frame[t].dev] = frame[t].arg]
  /\ Goto(t, "set_output_callback")
  /\ UNCHANGED <<runtimeLock, creation, handle, open, last, submitted, backend,
                 visit, inCallback>>

SetBackendCallback(t) ==
  /\ pc[t] = "set_output_callback"
  /\ installed' = [installed EXCEPT ![frame[t].dev] = callback[frame[t].dev]]
  /\ Unlock(frame[t].dev)
  /\ Return(t)
  /\ UNCHANGED <<runtimeLock, creation, handle, device, phase, history, visit,
                 inCallback>>

\* The callback is copied under the mutex and called after its release.
DispatchOutput(t) ==
  LET d == frame[t].dev IN
  /\ Enter(t, "dispatch_output")
  /\ inCallback' = IF open[d] /\ callback[d] # None
                     THEN [inCallback EXCEPT ![t] = d] ELSE inCallback
  /\ Return(t)
  /\ UNCHANGED <<runtimeLock, deviceLock, creation, handle, device, backend, visit>>

CallbackReturns(t) ==
  /\ pc[t] = "idle"
  /\ inCallback[t] # 0
  /\ inCallback' = [inCallback EXCEPT ![t] = 0]
  /\ UNCHANGED <<runtimeLock, deviceLock, creation, handle, device, backend,
                 pc, frame, visit, calls>>

Close(t) ==
  /\ Enter(t, "close")
  /\ open[frame[t].dev]
  /\ Lock(t, frame[t].dev)
  /\ Goto(t, "close")
  /\ UNCHANGED <<runtimeLock, creation, handle, device, backend, visit, inCallback>>

\* A second close() succeeds and does nothing.
CloseClosed(t) ==
  /\ Enter(t, "close")
  /\ ~open[frame[t].dev]
  /\ Release(frame[t].dev)
  /\ Return(t)
  /\ UNCHANGED <<runtimeLock, deviceLock, creation, device, backend, visit, inCallback>>

\* The backend's close() returns; a failure may leave the platform device
\* behind.  Either way the device counts as closed from here on.
BackendClose(d) ==
  /\ \E left \in {"closed", "leaked"} :
       phase' = [phase EXCEPT ![d] = IF @ = "closed" THEN "closed" ELSE left]
  /\ open' = [open EXCEPT ![d] = FALSE]

CloseFinish(t) ==
  /\ pc[t] = "close"
  /\ BackendClose(frame[t].dev)
  /\ Release(frame[t].dev)
  /\ Unlock(frame[t].dev)
  /\ Return(t)
  /\ UNCHANGED <<runtimeLock, creation, last, submitted, callback, history,
                 installed, visit, inCallback>>

-----------------------------------------------------------------------------
(* Runtime::close_all and Runtime::active_device_count hold the runtime    *)
(* mutex and go through the vectors.  Of each entry whose weak_ptr still   *)
(* locks they keep the device alive, wait for its mutex and then close it  *)
(* or look at its open flag.                                               *)

EarlierInVector(d, e) ==
  /\ kind[d] = kind[e]
  /\ \E i, j \in DOMAIN registry : i < j /\ registry[i] = d /\ registry[j] = e

\* close_all() takes the vectors in the order of their kinds.  The operands of
\* the sum in active_device_count() have no order, but are not interleaved.
IsNext(t, d) ==
  /\ \A e \in todo[t] : ~EarlierInVector(e, d)
  /\ \A e \in todo[t] : kind[e] # kind[d] =>
       IF pc[t] = "close_all"
         THEN kind[d] < kind[e]
         ELSE \A f \in Registered : kind[f] = kind[e] => f \in todo[t]

\* Faulty variant: a device expires when its destructor starts.
ExpiredEarly(d) == handle[d] \in {"destroying", "gone"}

Expired(d) == handle[d] = "gone"

BeginVisit(t, label) ==
  /\ runtimeLock = None
  /\ Call(t, label, NoFrame)
  /\ runtimeLock' = t
  /\ todo' = [todo EXCEPT ![t] = Registered]
  /\ counted' = [counted EXCEPT ![t] = {}]
  /\ UNCHANGED <<deviceLock, creation, handle, device, backend, inCallback>>

SkipExpired(t, d) ==
  /\ pc[t] \in {"close_all", "count"}
  /\ IsNext(t, d)
  /\ Expired(d)
  /\ todo' = [todo EXCEPT ![t] = @ \ {d}]
  /\ UNCHANGED <<runtimeLock, deviceLock, creation, handle, device, backend,
                 pc, frame, counted, inCallback, calls>>

\* weak_ptr::lock(): from here on the owner's destructor does not free d.
Pin(t, d) ==
  /\ pc[t] \in {"close_all", "count"}
  /\ IsNext(t, d)
  /\ ~Expired(d)
  /\ frame' = [frame EXCEPT ![t] = Frame("none", d, None)]
  /\ pc' = [pc EXCEPT ![t] = IF @ = "count" THEN "count_wait" ELSE "close_wait"]
  /\ UNCHANGED <<runtimeLock, deviceLock, creation, handle, device, backend,
                 visit, inCallback, calls>>

Visited(t, label) ==
  /\ todo' = [todo EXCEPT ![t] = @ \ {frame[t].dev}]
  /\ frame' = [frame EXCEPT ![t] = NoFrame]
  /\ pc' = [pc EXCEPT ![t] = label]
  /\ UNCHANGED calls

CloseAllLock(t) ==
  /\ pc[t] = "close_wait"
  /\ Lock(t, frame[t].dev)
  /\ Goto(t, "close_one")
  /\ UNCHANGED <<runtimeLock, creation, handle, device, backend, visit, inCallback>>

\* close_devices() calls the backend even when the device is closed already.
CloseAllOne(t) ==
  /\ pc[t] = "close_one"
  /\ BackendClose(frame[t].dev)
  /\ Unlock(frame[t].dev)
  /\ Visited(t, "close_all")
  /\ UNCHANGED <<runtimeLock, creation, handle, last, submitted, callback,
                 history, installed, counted, inCallback>>

CountOne(t) ==
  /\ pc[t] = "count_wait"
  /\ deviceLock[frame[t].dev] = None
  /\ counted' = [counted EXCEPT ![t] = IF open[frame[t].dev]
                                         THEN @ \cup {frame[t].dev} ELSE @]
  /\ Visited(t, "count")
  /\ UNCHANGED <<runtimeLock, deviceLock, creation, handle, device, backend,
                 inCallback>>

EndVisit(t) ==
  /\ pc[t] \in {"close_all", "count"}
  /\ todo[t] = {}
  /\ runtimeLock' = None
  /\ counted' = [counted EXCEPT ![t] = {}]
  /\ Return(t)
  /\ UNCHANGED <<deviceLock, creation, handle, device, backend, todo, inCallback>>

-----------------------------------------------------------------------------
\* What a client may start at any time.  A gamepad takes whole states only.
Client(t) ==
  \/ \E k \in Kinds : CreateAllocate(t, k)
  \/ \E d \in Ids :
       \/ \E i \in Inputs : /\ kind[d] = GamepadKind => i \in Whole
                           /\ CallHandle(t, d, "submit", i)
       \/ /\ kind[d] = GamepadKind
          /\ \/ \E c \in Callbacks \cup {None} :
                  CallHandle(t, d, "set_output_callback", c)
             \/ inCallback[t] = 0 /\ CallHandle(t, d, "dispatch_output", None)
       \/ CallHandle(t, d, "close", None)
       \/ CallDestroy(t, d)
  \/ BeginVisit(t, "close_all")
  \/ BeginVisit(t, "count")

\* What a thread does inside the library once it has called it.
Step(t) ==
  \/ CreateBackend(t) \/ CreateFails(t) \/ CreateRegister(t)
  \/ Submit(t) \/ SubmitClosed(t) \/ SubmitFails(t)
  \/ SubmitAccepted(t) \/ SubmitCommit(t)
  \/ SetOutputCallback(t) \/ SetBackendCallback(t)
  \/ DispatchOutput(t) \/ CallbackReturns(t)
  \/ Close(t) \/ CloseClosed(t) \/ CloseFinish(t)
  \/ \E d \in todo[t] : SkipExpired(t, d) \/ Pin(t, d)
  \/ CloseAllLock(t) \/ CloseAllOne(t) \/ CountOne(t) \/ EndVisit(t)

Next == \E t \in Threads : Client(t) \/ Step(t)

Spec == Init /\ [][Next]_vars

\* A thread inside the library keeps running, and a mutex that stays free is
\* taken by a thread that waits for it.
FairSpec == Spec /\ \A t \in Threads : WF_vars(Step(t))
-----------------------------------------------------------------------------
(* Properties.                                                             *)

InBackend(t) ==
  pc[t] \in {"submit", "commit", "set_output_callback", "close", "close_one"}

\* The backends keep unguarded members (HidMouse, HidKeyboard): no two threads,
\* not even a client and close_all(), are in a backend call of one device.
BackendCallsSerialized ==
  \A t, u \in Threads :
    t # u /\ InBackend(t) /\ InBackend(u) => frame[t].dev # frame[u].dev

\* submit_count(), is_open() and the getters of the last input take the device
\* mutex: whenever they can run, the platform has seen what they report.  A
\* touchscreen's or trackpad's last contact has its id from the last input that
\* named a contact and all the rest from the last contact that was placed.
HandleAgreesWithBackend ==
  \A d \in Ids : deviceLock[d] = None =>
    /\ named[d] # None => last[d].id = ContactOf[named[d]]
    /\ last[d].rest = placed[d]
    /\ submitted[d] = accepted[d]
    /\ callback[d] = installed[d]
    /\ open[d] <=> phase[d] = "open"

\* A handle that was destroyed, possibly while close_all() visited the device,
\* has left no open device behind.
DestroyedIsClosed ==
  \A d \in Ids : handle[d] = "gone" => ~open[d]

\* When close_all() is about to return, every device a create call had
\* registered is closed, whatever the other threads did meanwhile.
CloseAllClosesRegistered ==
  \A t \in Threads : pc[t] = "close_all" /\ todo[t] = {} =>
    \A d \in Registered : ~open[d]

\* When active_device_count() is about to return, it has counted every
\* registered device that is open.
CountMissesNone ==
  \A t \in Threads : pc[t] = "count" /\ todo[t] = {} =>
    \A d \in Registered : open[d] => d \in counted[t]

\* An open device is in a vector, or its creator is about to put it there:
\* no interleaving of creations makes close_all() lose sight of a device.
OpenIsRegistered ==
  \A d \in Ids : open[d] =>
    \/ d \in Registered
    \/ \E t \in Threads : pc[t] = "register" /\ frame[t].dev = d

\* What the library says of a device is true of the platform's device: an open
\* handle agrees with it, and none outlives its handle.
HandlesAreTrue == HandleAgreesWithBackend /\ DestroyedIsClosed

\* No open device is missed: each is in a vector or about to be, close_all()
\* has closed what was there, active_device_count() has counted it.
NoneMissed == OpenIsRegistered /\ CloseAllClosesRegistered /\ CountMissesNone

\* Every call returns: the runtime mutex is taken before device mutexes and
\* never after one, and callbacks run with no mutex held.
CallsReturn ==
  \A t \in Threads : []<>(pc[t] = "idle")

\* The handles keep the promises of DeviceContract; what a client can see of
\* an input is what the platform accepted.
Contract == INSTANCE DeviceContract WITH
  Devices <- Ids,
  NoInput <- None,
  phase <- [d \in Ids |-> IF open[d] THEN "open"
                         ELSE IF phase[d] = "none" THEN "none"
                         ELSE "closed"],
  last <- delivered,
  accepted <- accepted

ImplementsContract == Contract!Spec
=============================================================================
