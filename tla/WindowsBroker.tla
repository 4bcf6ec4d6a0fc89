---------------------------- MODULE WindowsBroker ----------------------------
(***************************************************************************)
(* The Windows broker service (windows/broker/libvirtualhid_broker.cpp):   *)
(* its service thread, which cleans up and then serves one pipe client at  *)
(* a time, its licence validation thread, the licence file, the driver     *)
(* that owns the devices, and the Polar licence service.                   *)
(*                                                                         *)
(* mutex_ is held only for short stretches, each of them one step here;    *)
(* license_operation_mutex_ is held across calls to Polar and file writes  *)
(* and is modelled.  Clients, time, Polar, the driver and the broker's own *)
(* death are the environment.  Times are kept as the side of the limit     *)
(* they are on, and a limit may pass at any moment.                        *)
(***************************************************************************)
EXTENDS Integers, FiniteSets

CONSTANTS
  Clients,         \* client processes
  Keys,            \* licence keys
  Yearly,          \* the keys of yearly subscriptions; the others are lifetime
  Kinds,           \* device kinds clients ask for
  Machines,        \* the machines considered: "own", "runner" (GitHub Actions)
  None,            \* no licence, no thread, no client
  MaxDevices,      \* bound: devices created
  MaxActivations,  \* bound: activations Polar grants
  RunnerDevices,   \* bound: devices created on a runner
  RunnerActivations  \* bound: activations Polar grants a runner

ASSUME BrokerAssumption ==
  /\ Yearly \subseteq Keys
  /\ Kinds \subseteq {"gamepad", "xbox_360", "keyboard", "mouse"}
  /\ Machines \subseteq {"own", "runner"}
  /\ MaxDevices \in Nat /\ MaxActivations \in Nat
  /\ RunnerDevices \in 0..MaxDevices /\ RunnerActivations \in 0..MaxActivations
  /\ None \notin Clients \cup Keys \cup {"service", "validator"}

Threads == {"service", "validator"}

VARIABLES
  \* Memory of the broker process.
  license,     \* license_state_: key, activation, age of its validation, usage
  online,      \* license_online_confirmed_
  outage,      \* license_validation_unavailable_since_: "none", "recent", "long"
  attempt,     \* next_license_validation_attempt_: "none", "interval", "retry", "due"
  revoke,      \* revoke_licensed_devices_
  reconciled,  \* driver_state_reconciled_
  devices,     \* devices_
  opLock,      \* holder of license_operation_mutex_
  pc, op,      \* where a thread is, and its licence operation
  draft,       \* the licence state the holder of opLock works on
  job,         \* the device the service thread creates
  cleanup,     \* cleanup_requests
  \* Files.
  saved,       \* the licence file; None when absent, empty or torn
  window,      \* the evaluation file: "unused", "open" or "over"; "none" if
               \* the machine is not a runner
  \* The rest of the system.
  driver,      \* devices that exist
  alive,       \* client processes that run
  granted,     \* activations Polar honours
  activations, \* activations Polar has granted so far
  made,        \* devices made so far
  recorded, counted  \* gamepads recorded for license.key, and known to Polar

memory == <<license, online, outage, attempt, revoke, reconciled, devices>>
thread == <<opLock, pc, op, draft, job, cleanup>>
files == <<saved, window>>
polar == <<granted, activations, counted>>
world == <<driver, alive, made>>
vars == <<memory, thread, files, polar, world, recorded>>

Licences == [key : Keys, activation : 1..MaxActivations,
             age : {"current", "lapsed", "unknown"}, pending : 0..MaxDevices]
Devices == [id : 1..MaxDevices, owner : Clients, kind : Kinds, evaluation : BOOLEAN]

ASSUME NoneIsNoLicence == None \notin Licences

Operations == {"none", "validate", "activate", "deactivate", "record"}
Labels == {"construct", "reconcile", "destroy", "ready",
           "create", "create_device", "register", "destroy_device",
           "begin", "call", "open_file", "write_file", "commit",
           "delete_then_reset", "delete_file",
           "schedule_interval", "schedule_retry", "wait", "dead"}

TypeOK ==
  /\ license \in Licences \cup {None}
  /\ online \in BOOLEAN
  /\ outage \in {"none", "recent", "long"}
  /\ attempt \in {"none", "interval", "retry", "due"}
  /\ revoke \in BOOLEAN /\ reconciled \in BOOLEAN
  /\ devices \subseteq Devices /\ cleanup \subseteq Devices /\ driver \subseteq Devices
  /\ opLock \in Threads \cup {None}
  /\ pc \in [Threads -> Labels] /\ op \in [Threads -> Operations]
  /\ draft \in Licences \cup {None}
  /\ job \in Devices \cup {None}
  /\ saved \in Licences \cup {None}
  /\ window \in {"none", "unused", "open", "over"}
  /\ alive \subseteq Clients
  /\ granted \subseteq 1..MaxActivations /\ activations \in 0..MaxActivations
  /\ made \in 0..MaxDevices
  /\ recorded \in 0..MaxDevices /\ counted \in 0..MaxDevices

Running == pc["service"] # "dead"

\* A machine on which no licence was ever activated, its broker not started.
Init ==
  /\ license = None /\ online = FALSE /\ outage = "none" /\ attempt = "none"
  /\ revoke = FALSE /\ reconciled = FALSE /\ devices = {}
  /\ opLock = None /\ draft = None /\ job = None /\ cleanup = {}
  /\ pc = [t \in Threads |-> "dead"] /\ op = [t \in Threads |-> "none"]
  /\ saved = None
  /\ window \in {IF m = "runner" THEN "unused" ELSE "none" : m \in Machines}
  /\ driver = {} /\ alive = Clients
  /\ granted = {} /\ activations = 0 /\ made = 0
  /\ recorded = 0 /\ counted = 0

Goto(t, label) == pc' = [pc EXCEPT ![t] = label]

Licensed(set) == {d \in set : ~d.evaluation}

AtMost(n, max) == IF n > max THEN max ELSE n

-----------------------------------------------------------------------------
(* BrokerState(): what is in the file is loaded, if it can be secured, read *)
(* and decrypted, and validated at once.                                   *)

Start ==
  /\ ~Running
  /\ license' \in {saved, None}
  /\ online' = FALSE /\ outage' = "none"
  /\ attempt' = IF license' = None THEN "none" ELSE "due"
  /\ revoke' = FALSE /\ reconciled' = FALSE /\ devices' = {}
  /\ opLock' = None /\ draft' = None /\ job' = None /\ cleanup' = {}
  /\ pc' = [t \in Threads |-> IF t = "service" THEN "construct" ELSE "wait"]
  /\ op' = [t \in Threads |-> "none"]
  /\ recorded' = IF license' = None THEN 0 ELSE license'.pending
  /\ counted' = 0
  /\ UNCHANGED <<files, granted, activations, world>>

\* reset_devices() removes every device of the driver; Xbox 360 software
\* devices belong to the broker process and died with the last one.
ResetDevices(ok) ==
  IF ok THEN driver' = {} /\ devices' = {} /\ reconciled' = TRUE
        ELSE UNCHANGED <<driver, devices, reconciled>>

Construct(ok) ==
  /\ pc["service"] = "construct"
  /\ ResetDevices(ok)
  /\ Goto("service", "reconcile")
  /\ UNCHANGED <<license, online, outage, attempt, revoke, opLock, op, draft,
                 job, cleanup, files, polar, alive, made, recorded>>

-----------------------------------------------------------------------------
(* cleanup_devices(), run before every request and between requests.       *)

Reconcile(ok) ==
  /\ pc["service"] = "reconcile"
  /\ ~reconciled
  /\ ResetDevices(ok)
  /\ Goto("service", IF ok THEN "reconcile" ELSE "ready")
  /\ UNCHANGED <<license, online, outage, attempt, revoke, opLock, op, draft,
                 job, cleanup, files, polar, alive, made, recorded>>

\* Faulty: a licence validated before Windows restarted counts as current.
AuthorizedUnlessLapsed(l) == l # None /\ (l.key \in Yearly => l.age # "lapsed")

\* license_authorization_is_current_locked(): a lifetime licence never lapses,
\* a yearly one needs a validation in this Windows session.
Authorized(l) == l # None /\ (l.key \in Yearly => l.age = "current")

Lapsed(l) == l # None /\ l.key \in Yearly /\ l.age = "lapsed"

EvaluationOver == window = "over" /\ ~Authorized(license)

\* The order of devices_: the ids of software devices follow the driver's.
Before(d, e) ==
  IF (d.kind = "xbox_360") = (e.kind = "xbox_360") THEN d.id < e.id
                                                   ELSE e.kind = "xbox_360"

\* The devices go whose client is gone, whose licence or evaluation is, and,
\* an hour into an outage, all licensed ones but the first in the map.
Condemned(revoked) ==
  LET Doomed(d) == \/ d.owner \notin alive
                   \/ IF d.evaluation THEN EvaluationOver ELSE revoked
      Over(d) == /\ outage = "long" /\ ~d.evaluation
                 /\ \E e \in Licensed(devices) : Before(e, d) /\ ~Doomed(e)
  IN {d \in devices : Doomed(d) \/ Over(d)}

CleanupSelect ==
  /\ pc["service"] = "reconcile" /\ reconciled
  /\ revoke' = (revoke \/ Lapsed(license))
  /\ cleanup' = Condemned(revoke')
  /\ Goto("service", "destroy")
  /\ UNCHANGED <<license, online, outage, attempt, reconciled, devices, opLock,
                 op, draft, job, files, polar, world, recorded>>

\* destroy_device_transport(): the driver may fail, and the device is then
\* kept for the next cleanup; a software device is closed with its record.
Destroy(d) ==
  /\ driver' = driver \ {d}
  /\ devices' = devices \ {d}

CleanupDestroy(d) ==
  /\ pc["service"] = "destroy"
  /\ d \in cleanup
  /\ cleanup' = cleanup \ {d}
  /\ Destroy(d)
  /\ UNCHANGED <<license, online, outage, attempt, revoke, reconciled, opLock,
                 pc, op, draft, job, files, polar, alive, made, recorded>>

\* Faulty: the record goes though the driver kept the device.
CleanupFailsAndForgets(d) ==
  /\ pc["service"] = "destroy"
  /\ d \in cleanup /\ d.kind # "xbox_360"
  /\ cleanup' = cleanup \ {d}
  /\ devices' = devices \ {d}
  /\ UNCHANGED <<license, online, outage, attempt, revoke, reconciled, opLock,
                 pc, op, draft, job, files, polar, world, recorded>>

CleanupFails(d) ==
  /\ pc["service"] = "destroy"
  /\ d \in cleanup /\ d.kind # "xbox_360"
  /\ cleanup' = cleanup \ {d}
  /\ UNCHANGED <<memory, opLock, pc, op, draft, job, files, polar, world, recorded>>

\* Faulty: the order to revoke is dropped though devices are left.
CleanupFinishForgets ==
  /\ pc["service"] = "destroy"
  /\ cleanup = {}
  /\ revoke' = FALSE
  /\ Goto("service", "ready")
  /\ UNCHANGED <<license, online, outage, attempt, reconciled, devices, opLock,
                 op, draft, job, cleanup, files, polar, world, recorded>>

CleanupFinish ==
  /\ pc["service"] = "destroy"
  /\ cleanup = {}
  /\ revoke' = (revoke /\ Licensed(devices) # {})
  /\ Goto("service", "ready")
  /\ UNCHANGED <<license, online, outage, attempt, reconciled, devices, opLock,
                 op, draft, job, cleanup, files, polar, world, recorded>>

-----------------------------------------------------------------------------
(* One pipe client is served, or none came: back to the cleanup.  A request *)
(* refused on the spot is no different from none.                          *)

NoRequest ==
  /\ pc["service"] = "ready"
  /\ Goto("service", "reconcile")
  /\ UNCHANGED <<memory, opLock, op, draft, job, cleanup, files, polar, world,
                 recorded>>

RequestLicense(operation) ==
  /\ pc["service"] = "ready"
  /\ op' = [op EXCEPT !["service"] = operation]
  /\ Goto("service", "begin")
  /\ UNCHANGED <<memory, opLock, draft, job, cleanup, files, polar, world, recorded>>

\* handle_create() reconciles, and refuses while it cannot.
CreateReconcile(ok) ==
  /\ pc["service"] = "ready"
  /\ ~reconciled
  /\ ResetDevices(ok)
  /\ Goto("service", IF ok THEN "create" ELSE "reconcile")
  /\ UNCHANGED <<license, online, outage, attempt, revoke, opLock, op, draft,
                 job, cleanup, files, polar, alive, made, recorded>>

Creating(c) ==
  /\ pc["service"] = "create" \/ (pc["service"] = "ready" /\ reconciled)
  /\ c \in alive
  /\ made < IF window = "none" THEN MaxDevices ELSE RunnerDevices

NewDevice(c, k, evaluation) ==
  [id |-> made + 1, owner |-> c, kind |-> k, evaluation |-> evaluation]

\* authorize_device_create() under a licence: any number of devices once the
\* licence was validated online, one while it could not be.
Authorize(c, k) ==
  /\ Creating(c)
  /\ Authorized(license)
  /\ online \/ Licensed(devices) = {}
  /\ job' = NewDevice(c, k, FALSE)
  /\ Goto("service", "create_device")
  /\ UNCHANGED <<memory, opLock, op, draft, cleanup, files, polar, world, recorded>>

\* The first creation on an unlicensed GitHub runner opens the window.
AuthorizeEvaluation(c, k) ==
  /\ Creating(c)
  /\ license = None /\ window \in {"unused", "open"}
  /\ window' = "open"
  /\ job' = NewDevice(c, k, TRUE)
  /\ Goto("service", "create_device")
  /\ UNCHANGED <<memory, opLock, op, draft, cleanup, saved, polar, world, recorded>>

\* Not authorized, the client has gone, or its handle cannot be duplicated:
\* the request had no effect, as NoRequest when nothing was reconciled.
CreateRefused ==
  /\ pc["service"] = "create"
  /\ Goto("service", "reconcile")
  /\ UNCHANGED <<memory, opLock, op, draft, job, cleanup, files, polar, world,
                 recorded>>

\* A device of the driver belongs to the client's control handle, so it is
\* gone at once if the client is.
CreateInDriver ==
  /\ pc["service"] = "create_device"
  /\ made' = made + 1
  /\ driver' = IF job.owner \in alive \/ job.kind = "xbox_360"
                 THEN driver \cup {job} ELSE driver
  /\ Goto("service", "register")
  /\ UNCHANGED <<memory, opLock, op, draft, job, cleanup, files, polar, alive,
                 recorded>>

CreateFails ==
  /\ pc["service"] = "create_device"
  /\ job' = None
  /\ Goto("service", "reconcile")
  /\ UNCHANGED <<memory, opLock, op, draft, cleanup, files, polar, world, recorded>>

\* A licensed gamepad is then recorded as usage.
Register ==
  /\ pc["service"] = "register"
  /\ devices' = devices \cup {job}
  /\ LET usage == ~job.evaluation /\ job.kind \in {"gamepad", "xbox_360"} IN
       /\ op' = [op EXCEPT !["service"] = IF usage THEN "record" ELSE "none"]
       /\ Goto("service", IF usage THEN "begin" ELSE "reconcile")
  /\ job' = None
  /\ UNCHANGED <<license, online, outage, attempt, revoke, reconciled, opLock,
                 draft, cleanup, files, polar, world, recorded>>

\* handle_destroy() for a client that shows the device's session token.
DestroyDevice(d) ==
  /\ pc["service"] = "ready"
  /\ d \in devices /\ d.owner \in alive
  /\ Destroy(d)
  /\ Goto("service", "reconcile")
  /\ UNCHANGED <<license, online, outage, attempt, revoke, reconciled, opLock,
                 op, draft, job, cleanup, files, polar, alive, made, recorded>>

-----------------------------------------------------------------------------
(* Licence operations, by either thread, under license_operation_mutex_.   *)

ValidationDue ==
  /\ pc["validator"] = "wait"
  /\ license # None /\ attempt = "due"
  /\ attempt' = "retry"
  /\ op' = [op EXCEPT !["validator"] = "validate"]
  /\ Goto("validator", "begin")
  /\ UNCHANGED <<license, online, outage, revoke, reconciled, devices, opLock,
                 draft, job, cleanup, files, polar, world, recorded>>

\* A validation, unlike the other operations, schedules the next one.
After(t, scheduled) == IF op[t] = "validate" THEN scheduled ELSE "reconcile"

Finish(t, scheduled) ==
  /\ opLock' = None
  /\ draft' = None
  /\ op' = [op EXCEPT ![t] = "none"]
  /\ Goto(t, After(t, scheduled))

BeginWithoutLicence(t) ==
  /\ pc[t] = "begin" /\ opLock = None
  /\ op[t] # "activate" /\ license = None
  /\ Finish(t, "schedule_retry")
  /\ UNCHANGED <<memory, job, cleanup, files, polar, world, recorded>>

BeginCall(t) ==
  /\ pc[t] = "begin" /\ opLock = None
  /\ op[t] = "activate" \/ (license # None /\ op[t] # "record")
  /\ opLock' = t
  /\ draft' = license
  /\ Goto(t, "call")
  /\ UNCHANGED <<memory, op, job, cleanup, files, polar, world, recorded>>

\* Faulty: the usage is counted without the operation mutex.
BeginRecordUnlocked(t) ==
  /\ pc[t] = "begin"
  /\ op[t] = "record" /\ license # None
  /\ license' = [license EXCEPT !.pending = @ + 1]
  /\ recorded' = recorded + 1
  /\ op' = [op EXCEPT ![t] = "none"]
  /\ Goto(t, "reconcile")
  /\ UNCHANGED <<online, outage, attempt, revoke, reconciled, devices, opLock,
                 draft, job, cleanup, files, polar, world>>

\* record_gamepad_creation(): no call, the count goes to the file only.
BeginRecord(t) ==
  /\ pc[t] = "begin" /\ opLock = None
  /\ op[t] = "record" /\ license # None
  /\ opLock' = t
  /\ license' = [license EXCEPT !.pending = @ + 1]
  /\ recorded' = recorded + 1
  /\ draft' = license'
  /\ Goto(t, "open_file")
  /\ UNCHANGED <<online, outage, attempt, revoke, reconciled, devices, op, job,
                 cleanup, files, polar, world>>

MarkUnavailable ==
  IF license = None THEN UNCHANGED <<online, outage>>
  ELSE /\ online' = FALSE
       /\ outage' = IF outage = "none" THEN "recent" ELSE outage

Unavailable(t) ==
  IF op[t] = "validate" THEN MarkUnavailable ELSE UNCHANGED <<online, outage>>

\* No answer, or none that can be used.  Polar may have acted on the request.
CallFails(t) ==
  /\ pc[t] = "call"
  /\ Unavailable(t)
  /\ counted' \in IF op[t] = "validate"
                    THEN {counted, AtMost(counted + draft.pending, MaxDevices)}
                    ELSE {counted}
  /\ granted' \in IF op[t] = "deactivate"
                    THEN {granted, granted \ {draft.activation}} ELSE {granted}
  /\ Finish(t, "schedule_retry")
  /\ UNCHANGED <<license, attempt, revoke, reconciled, devices, job, cleanup,
                 files, activations, world, recorded>>

ActivationRefused(t) ==
  /\ pc[t] = "call" /\ op[t] = "activate"
  /\ Finish(t, "schedule_retry")
  /\ UNCHANGED <<memory, job, cleanup, files, polar, world, recorded>>

\* The memory is reset; the file is deleted before or after that.
ForgetLicence ==
  /\ license' = None
  /\ attempt' = "none"
  /\ online' = FALSE
  /\ outage' = "none"
  /\ revoke' = TRUE

\* invalidate_license(): Polar does not honour the activation any more.
Denied(t) ==
  /\ pc[t] = "call" /\ op[t] \in {"validate", "deactivate"}
  /\ draft.activation \notin granted
  /\ ForgetLicence
  /\ Goto(t, "delete_file")
  /\ UNCHANGED <<reconciled, devices, opLock, op, draft, job, cleanup, files,
                 polar, world, recorded>>

\* delete_license_state() ignores a failure.
DeleteFile(t, ok) ==
  /\ pc[t] = "delete_file"
  /\ saved' = IF ok THEN None ELSE saved
  /\ Finish(t, "schedule_retry")
  /\ UNCHANGED <<memory, job, cleanup, window, polar, world, recorded>>

Deactivated(t) ==
  /\ pc[t] = "call" /\ op[t] = "deactivate"
  /\ draft.activation \in granted
  /\ granted' = granted \ {draft.activation}
  /\ \E ok \in BOOLEAN : saved' = IF ok THEN None ELSE saved
  /\ Goto(t, "delete_then_reset")
  /\ UNCHANGED <<memory, opLock, op, draft, job, cleanup, window, activations,
                 counted, world, recorded>>

ResetAfterDelete(t) ==
  /\ pc[t] = "delete_then_reset"
  /\ ForgetLicence
  /\ Finish(t, "schedule_retry")
  /\ UNCHANGED <<reconciled, devices, job, cleanup, files, polar, world, recorded>>

Validated(t) ==
  /\ pc[t] = "call" /\ op[t] = "validate"
  /\ draft.activation \in granted
  /\ counted' = AtMost(counted + draft.pending, MaxDevices)
  /\ draft' = [draft EXCEPT !.age = "current", !.pending = 0]
  /\ Goto(t, "open_file")
  /\ UNCHANGED <<memory, opLock, op, job, cleanup, files, granted, activations,
                 world, recorded>>

\* Faulty: an answer without an activation is accepted.
ActivatedUnchecked(t, k) ==
  /\ pc[t] = "call" /\ op[t] = "activate"
  /\ draft' = [key |-> k, activation |-> None, age |-> "current", pending |-> 0]
  /\ Goto(t, "open_file")
  /\ UNCHANGED <<memory, opLock, op, job, cleanup, files, polar, world, recorded>>

\* The usage still to be reported is kept when the key stays the same.
Activated(t, k) ==
  /\ pc[t] = "call" /\ op[t] = "activate"
  /\ activations < IF window = "none" THEN MaxActivations ELSE RunnerActivations
  /\ activations' = activations + 1
  /\ granted' = granted \cup {activations'}
  /\ draft' = [key |-> k, activation |-> activations', age |-> "current",
               pending |-> IF license # None /\ license.key = k
                             THEN license.pending ELSE 0]
  /\ Goto(t, "open_file")
  /\ UNCHANGED <<memory, opLock, op, job, cleanup, files, counted, world, recorded>>

\* save_protected_state() opens the file with CREATE_ALWAYS, which empties it,
\* and then writes it.
OpenFile(t) ==
  /\ pc[t] = "open_file"
  /\ saved' = None
  /\ Goto(t, "write_file")
  /\ UNCHANGED <<memory, opLock, op, draft, job, cleanup, window, polar, world,
                 recorded>>

\* The file cannot be opened, is left torn, or is whole when flushing it, closing it or
\* protecting it fails.
SaveFails(t) ==
  /\ \/ pc[t] = "open_file" /\ UNCHANGED saved
     \/ pc[t] = "write_file" /\ saved' \in {saved, draft}
  /\ Unavailable(t)
  /\ Finish(t, "schedule_retry")
  /\ UNCHANGED <<license, attempt, revoke, reconciled, devices, job, cleanup,
                 window, polar, world, recorded>>

WriteFile(t) ==
  /\ pc[t] = "write_file"
  /\ saved' = draft
  /\ Goto(t, "commit")
  /\ UNCHANGED <<memory, opLock, op, draft, job, cleanup, window, polar, world,
                 recorded>>

\* A recorded creation is in memory already.
CommitRecord(t) ==
  /\ pc[t] = "commit" /\ op[t] = "record"
  /\ Finish(t, "schedule_retry")
  /\ UNCHANGED <<memory, job, cleanup, files, polar, world, recorded>>

Commit(t) ==
  /\ pc[t] = "commit" /\ op[t] \in {"validate", "activate"}
  /\ license' = draft
  /\ online' = TRUE
  /\ outage' = "none"
  /\ attempt' = IF op[t] = "activate" THEN "interval" ELSE attempt
  /\ IF op[t] = "activate" /\ (license = None \/ license.key # draft.key)
       THEN recorded' = draft.pending /\ counted' = 0
       ELSE UNCHANGED <<recorded, counted>>
  /\ Finish(t, "schedule_interval")
  /\ UNCHANGED <<revoke, reconciled, devices, job, cleanup, files, granted,
                 activations, world>>

\* Faulty: nothing is scheduled after a failure.
ScheduleSuccess(t) ==
  /\ pc[t] \in {"schedule_interval", "schedule_retry"}
  /\ attempt' = IF license # None /\ pc[t] = "schedule_interval" THEN "interval" ELSE "none"
  /\ Goto(t, IF t = "service" THEN "reconcile" ELSE "wait")
  /\ UNCHANGED <<license, online, outage, revoke, reconciled, devices, opLock,
                 op, draft, job, cleanup, files, polar, world, recorded>>

\* schedule_after_license_validation(), after the operation mutex is released.
Schedule(t) ==
  /\ pc[t] \in {"schedule_interval", "schedule_retry"}
  /\ attempt' = CASE license = None -> "none"
                  [] license # None /\ pc[t] = "schedule_interval" -> "interval"
                  [] OTHER -> "retry"
  /\ Goto(t, IF t = "service" THEN "reconcile" ELSE "wait")
  /\ UNCHANGED <<license, online, outage, revoke, reconciled, devices, opLock,
                 op, draft, job, cleanup, files, polar, world, recorded>>

-----------------------------------------------------------------------------
(* Time, clients, Polar, and the ends of the broker and of Windows.        *)

TimerFires ==
  /\ Running /\ attempt \in {"interval", "retry"}
  /\ attempt' = "due"
  /\ UNCHANGED <<license, online, outage, revoke, reconciled, devices, thread,
                 files, polar, world, recorded>>

HourPasses ==
  /\ Running /\ outage = "recent"
  /\ outage' = "long"
  /\ UNCHANGED <<license, online, attempt, revoke, reconciled, devices, thread,
                 files, polar, world, recorded>>

\* The age of a lifetime licence is never looked at, and is not followed.
Aged(l, age) == IF l # None /\ l.key \in Yearly THEN [l EXCEPT !.age = age] ELSE l

Lapse(l) == IF l # None /\ l.age = "current" THEN Aged(l, "lapsed") ELSE l

\* 25 hours have passed since the last validation.
ValidationLapses ==
  /\ Lapse(license) # license \/ Lapse(saved) # saved
  /\ license' = Lapse(license)
  /\ saved' = Lapse(saved)
  /\ UNCHANGED <<online, outage, attempt, revoke, reconciled, devices, thread,
                 window, polar, world, recorded>>

WindowCloses ==
  /\ window = "open"
  /\ window' = "over"
  /\ UNCHANGED <<memory, thread, saved, polar, world, recorded>>

PolarRevokes(a) ==
  /\ a \in granted
  /\ granted' = granted \ {a}
  /\ UNCHANGED <<memory, thread, files, activations, counted, world, recorded>>

\* The driver removes the devices of a control handle that is closed.
ClientDies(c) ==
  /\ c \in alive
  /\ alive' = alive \ {c}
  /\ driver' = {d \in driver : d.owner # c \/ d.kind = "xbox_360"}
  /\ UNCHANGED <<memory, thread, files, polar, made, recorded>>

ProcessEnds ==
  /\ pc' = [t \in Threads |-> "dead"]
  /\ op' = [t \in Threads |-> "none"]
  /\ license' = None /\ online' = FALSE /\ outage' = "none" /\ attempt' = "none"
  /\ revoke' = FALSE /\ reconciled' = FALSE /\ devices' = {}
  /\ opLock' = None /\ draft' = None /\ job' = None /\ cleanup' = {}

\* Software devices live as long as the broker's handles to them.  A boot marker that
\* could not be registered was this process's only: the next one reads another session's.
BrokerDies ==
  /\ Running
  /\ ProcessEnds
  /\ driver' = {d \in driver : d.kind # "xbox_360"}
  /\ saved' \in {saved, Aged(saved, "unknown")}
  /\ UNCHANGED <<window, polar, alive, made, recorded>>

\* The boot marker in the file is then not this session's.
WindowsRestarts ==
  /\ ProcessEnds
  /\ driver' = {} /\ alive' = Clients
  /\ saved' = Aged(saved, "unknown")
  /\ UNCHANGED <<window, polar, made, recorded>>

-----------------------------------------------------------------------------
Cleanup ==
  \/ \E ok \in BOOLEAN : Construct(ok) \/ Reconcile(ok)
  \/ CleanupSelect \/ CleanupFinish
  \/ \E d \in cleanup : CleanupDestroy(d) \/ CleanupFails(d)

Requests ==
  \/ NoRequest
  \/ \E o \in {"validate", "activate", "deactivate"} : RequestLicense(o)
  \/ \E ok \in BOOLEAN : CreateReconcile(ok)
  \/ \E d \in devices : DestroyDevice(d)

Creation ==
  \/ \E c \in Clients, k \in Kinds : Authorize(c, k) \/ AuthorizeEvaluation(c, k)
  \/ CreateRefused \/ CreateInDriver \/ CreateFails \/ Register

LicenceStep(t) ==
  \/ BeginWithoutLicence(t) \/ BeginCall(t) \/ BeginRecord(t)
  \/ CallFails(t) \/ ActivationRefused(t) \/ Denied(t) \/ Deactivated(t)
  \/ Validated(t) \/ \E k \in Keys : Activated(t, k)
  \/ \E ok \in BOOLEAN : DeleteFile(t, ok)
  \/ ResetAfterDelete(t) \/ OpenFile(t) \/ SaveFails(t) \/ WriteFile(t)
  \/ CommitRecord(t) \/ Commit(t) \/ Schedule(t)

Environment ==
  \/ TimerFires \/ HourPasses \/ ValidationLapses \/ WindowCloses
  \/ \E a \in granted : PolarRevokes(a)
  \/ \E c \in alive : ClientDies(c)
  \/ BrokerDies \/ WindowsRestarts

Next ==
  \/ Start \/ Cleanup \/ Requests \/ Creation \/ ValidationDue
  \/ \E t \in Threads : LicenceStep(t)
  \/ Environment

Spec == Init /\ [][Next]_vars

-----------------------------------------------------------------------------
(* Fairness: the two threads run, calls to Polar and to the driver return, *)
(* a mutex asked for again and again is got, the driver does not refuse    *)
(* the same request for ever, and time passes.                             *)

ServiceStep == Cleanup \/ Requests \/ Creation \/ LicenceStep("service")

Begin(t) == BeginWithoutLicence(t) \/ BeginCall(t) \/ BeginRecord(t)

Fairness ==
  /\ WF_vars(ServiceStep)
  /\ WF_vars(ValidationDue \/ LicenceStep("validator"))
  /\ \A t \in Threads : SF_vars(Begin(t))
  /\ SF_vars(Construct(TRUE) \/ Reconcile(TRUE) \/ CreateReconcile(TRUE))
  /\ SF_vars(\E d \in cleanup : CleanupDestroy(d))
  /\ WF_vars(TimerFires)

FairSpec == Spec /\ Fairness

-----------------------------------------------------------------------------
(* Safety.                                                                 *)

\* Every device that exists, once the broker has reconciled with the driver,
\* is one it can still destroy: a failed destruction, the death of a client
\* and a licence operation in between never leave a device without a record.
DriverDevicesTracked ==
  Running /\ reconciled =>
    driver \subseteq devices \cup (IF pc["service"] = "register" THEN {job} ELSE {})

\* No licence operation, on either thread, loses the order to remove the
\* devices of a licence that is gone: while there is one, either the devices
\* are all gone or the next cleanup is told to remove them.
RevocationPending ==
  Running /\ reconciled /\ license = None /\ ~revoke => Licensed(driver) = {}

\* "After Windows restarts, a yearly license needs online validation before
\* device creation" (windows-driver.md), whatever was saved, and whichever
\* request comes before the validation the broker starts with.
RebootNeedsValidation ==
  license # None /\ license.key \in Yearly /\ license.age = "unknown" =>
    Licensed(devices) = {}

\* Licensed devices exist under a valid licence only: neither a licence lost
\* in any operation nor a restart of Windows leaves some behind for good.
LicensedDevicesAreCovered == RevocationPending /\ RebootNeedsValidation

\* While the broker runs, no gamepad recorded for the licence is lost between
\* the service thread that counts it and a validation that reports it: Polar
\* knows of it or it is still pending.
UsageNotLost ==
  license # None => counted + license.pending >= recorded

-----------------------------------------------------------------------------
(* Liveness: each holds as long as the broker keeps running.               *)

Exists(i) == \E d \in driver \cup devices : d.id = i

\* Nobody is entitled to the device any more: its client has ended, its licence
\* is gone, or the evaluation it was created in is over.
Unentitled(i) ==
  \E d \in driver \cup devices :
    /\ d.id = i
    /\ d.owner \notin alive \/ IF d.evaluation THEN EvaluationOver ELSE revoke

\* A licence that comes in time saves an evaluation device.
EntitledAgain(i) ==
  \E d \in driver : d.id = i /\ d.evaluation /\ d.owner \in alive /\ ~EvaluationOver

\* Such a device goes, and what the broker knows of it, whatever requests and
\* licence operations come first, and though the driver refuses at times.
\* "Confirmed revocation or deactivation removes existing licensed devices":
\* all that exist then, even if another licence is activated meanwhile.
UnentitledGo ==
  \A i \in 1..MaxDevices :
    (Running /\ reconciled /\ Unentitled(i))
      ~> (~Running \/ ~Exists(i) \/ EntitledAgain(i))

\* "Existing licensed devices remain for up to one hour; then the broker
\* removes all but one", unless Polar is reached before that is done.
OutageLimits ==
  (outage = "long") ~> (outage # "long" \/ Cardinality(Licensed(devices)) <= 1)

\* "A broker restart removes its existing virtual devices", also when the
\* driver does not answer at first.
RestartRemoves ==
  (Running /\ ~reconciled) ~> (~Running \/ driver = {})

\* No device stays that nobody is entitled to, from this broker's life or from
\* the one before, and none but one when an outage is long.
DevicesGo == UnentitledGo /\ RestartRemoves /\ OutageLimits

\* A licence is validated again and again, by one thread or the other, whatever
\* the requests of clients and the outcome of the last validation.
ValidationGoesOn ==
  []<>(license = None \/ \E t \in Threads : op[t] = "validate")

-----------------------------------------------------------------------------
(* What windows-driver.md says and the code does not keep.                 *)

\* "Retrying temporary failures about once a minute": while the last
\* validation failed and no other runs, the next one is not a day away.
RetryIsSoon ==
  /\ outage # "none"
  /\ \A t \in Threads :
       op[t] = "none" /\ pc[t] \notin {"schedule_interval", "schedule_retry"}
  => attempt # "interval"

\* "A previously activated lifetime license can keep or create one licensed
\* device while Polar is unreachable, with no offline time limit": the end of
\* the broker loses no licence that nobody revoked or deactivated.
LicenceOutlivesBroker ==
  [][/\ license # None /\ ~Running'
     /\ \A t \in Threads : pc[t] # "delete_then_reset"
     => saved' # None]_vars

=============================================================================
