---------------------------- MODULE MacosLicense ----------------------------
(***************************************************************************)
(* Who may have a gamepad on macOS: LicenseManager of the broker           *)
(* (macos/broker/license_manager.mm) with its validator thread, and the    *)
(* threads that serve clients (libvirtualhid_macos_broker.cpp), each a     *)
(* gamepad's session or a licence request.                                 *)
(*                                                                         *)
(* mutex_ is held for stretches that are one step here; operation_mutex_   *)
(* is held across calls to Polar and file writes: op is its holder, and    *)
(* how far it is.  What a session does with its client's messages is in    *)
(* MacosGamepad.  Polar, clients, time and the end of the broker are the   *)
(* environment; times are kept as the side of the limit they are on.       *)
(***************************************************************************)
EXTENDS Naturals

CONSTANTS
  Sessions,        \* threads that serve gamepads
  Keys,            \* licence keys
  Yearly,          \* the keys that are backed by a subscription
  None,            \* no key, no session
  MaxDevices,      \* bound: gamepads authorised
  MaxEvents        \* bound: licence requests and ends of the broker

LicenseAssumption ==
  /\ Yearly \subseteq Keys /\ None \notin Keys \cup Sessions
  /\ {MaxDevices, MaxEvents} \subseteq Nat

VARIABLES
  licence,     \* state_: its key and pending_usage
  age,         \* validated_at_: "none", "fresh", "due" (24 hours) or "lapsed" (25)
  outage,      \* unavailable_since_: "none", "recent" or "long" (an hour)
  online,      \* online_confirmed_
  window,      \* evaluation_started_at_, in memory and file: "unused", "open" or
               \* "over"; "never" if the machine is not a runner
  licensed,    \* active_licensed_devices_
  retained,    \* outage_device_selector_: a session, or none
  op,          \* the operation that holds operation_mutex_
  validator,   \* its thread: "starting" (the constructor), "sleeping" or "due"
  sessions,    \* sessions[s]: where s is, and what it was authorised by
  saved,       \* what a start reads of license.json: nothing of an unprotected one
  devices, events,  \* gamepads authorised, and requests and restarts, so far
  owed,        \* history: gamepads the licence served that Polar has not counted
  unsaved,     \* history: a count is in memory and its save failed
  undeleted,   \* history: the file of a licence that is gone could not be deleted
  unguarded    \* history: a licence's file was replaced and could not be protected

memoryVars == <<licence, age, outage, online, window, licensed, retained>>
boundVars == <<devices, events>>
historyVars == <<owed, unsaved, undeleted, unguarded>>
vars == <<memoryVars, op, validator, sessions, saved, boundVars, historyVars>>

NoLicence == [key |-> None, pending |-> 0]
Licences == [key : Keys, pending : 0..MaxDevices] \cup {NoLicence}
NoOp == [kind |-> "none"]

\* What a session was authorised by: a licence key, or None for the evaluation; and
\* whether Polar was unavailable then.
Session(at, key, offline) == [at |-> at, key |-> key, offline |-> offline]
Idle == Session("idle", None, FALSE)

TypeOK ==
  /\ {licence, saved} \subseteq Licences
  /\ age \in {"none", "fresh", "due", "lapsed"} /\ outage \in {"none", "recent", "long"}
  /\ window \in {"never", "unused", "open", "over"}
  /\ licensed \in 0..MaxDevices /\ retained \in Sessions \cup {None}
  /\ op.kind \in {"none", "validate", "activate", "deactivate", "count"}
  /\ op # NoOp => op.copy \in Licences
  /\ validator \in {"starting", "sleeping", "due"}
  /\ \A s \in Sessions :
       sessions[s] \in [at : {"idle", "authorized", "counted", "serving", "ending"}, key : Keys \cup {None}, offline : BOOLEAN]
  /\ owed \in 0..MaxDevices
  /\ {online, unsaved, undeleted, unguarded} \subseteq BOOLEAN

\* The broker starts, with the licence of an earlier run or none.
Init ==
  /\ saved \in {NoLicence} \cup [key : Keys, pending : {0}]
  /\ licence = saved /\ age = "none" /\ outage = "none" /\ online = FALSE
  /\ window \in IF saved = NoLicence THEN {"never", "unused"} ELSE {"never"}
  /\ licensed = 0 /\ retained = None
  /\ op = NoOp /\ validator = (IF saved = NoLicence THEN "sleeping" ELSE "starting")
  /\ sessions = [s \in Sessions |-> Idle]
  /\ devices = 0 /\ events = 0
  /\ owed = 0 /\ unsaved = FALSE /\ undeleted = FALSE /\ unguarded = FALSE

Has(l) == l # NoLicence

\* licensed_locked()
Licensed == Has(licence) /\ (licence.key \in Yearly => age \in {"fresh", "due"})

\* The constructor has returned, and the broker accepts clients.
Serves == validator # "starting" /\ (op # NoOp => op.by # "start")

At(s) == sessions[s].at
Goto(s, place) == sessions' = [sessions EXCEPT ![s].at = place]
ByLicence(s) == sessions[s].key # None

-----------------------------------------------------------------------------
(* A gamepad's session: serve_client() and receive_reports().              *)

\* authorize_create() by the licence: while Polar is unavailable only if none is counted.
Authorize(s) ==
  /\ Serves /\ At(s) = "idle" /\ devices < MaxDevices
  /\ Licensed /\ (online \/ licensed = 0)
  /\ sessions' = [sessions EXCEPT ![s] = Session("authorized", licence.key, ~online)]
  /\ devices' = devices + 1
  /\ UNCHANGED <<memoryVars, op, validator, saved, events, historyVars>>

\* authorize_create() by the evaluation of a runner, which may begin it: once.
AuthorizeEvaluation(s) ==
  /\ Serves /\ At(s) = "idle" /\ devices < MaxDevices
  /\ ~Has(licence) /\ window \in {"unused", "open"}
  /\ window' = "open"
  /\ sessions' = [sessions EXCEPT ![s] = Session("authorized", None, FALSE)]
  /\ devices' = devices + 1
  /\ UNCHANGED <<licence, age, outage, online, licensed, retained, op, validator, saved,
                 events, historyVars>>

\* create_device() fails.
CreateFails(s) ==
  /\ At(s) = "authorized"
  /\ sessions' = [sessions EXCEPT ![s] = Idle]
  /\ UNCHANGED <<memoryVars, op, validator, saved, boundVars, historyVars>>

\* create_device() succeeds, and add_device() up to its save, if there is a count to save.
AddDevice(s) ==
  /\ At(s) = "authorized" /\ op = NoOp
  /\ licensed' = IF ByLicence(s) THEN licensed + 1 ELSE licensed
  /\ IF ByLicence(s) /\ licence.key = sessions[s].key
       THEN /\ licence' = [licence EXCEPT !.pending = @ + 1]
            /\ op' = [kind |-> "count", by |-> s, at |-> "save", copy |-> licence']
            /\ Goto(s, "counted")
       ELSE Goto(s, "serving") /\ UNCHANGED <<licence, op>>
  /\ UNCHANGED <<age, outage, online, window, retained, validator, saved, boundVars,
                 historyVars>>

\* write_protected_json() fails when it has replaced the file, which chmod() leaves to
\* the mode of new files: the next start reads it or refuses it.  A broker that ends
\* before chmod() leaves the same file.
Replaced(l) == saved' \in {l, NoLicence}

\* The end of add_device(), after which the client is answered.
SaveCount(s) ==
  /\ At(s) = "counted"
  /\ \/ saved' = op.copy /\ unsaved' = FALSE /\ unguarded' = FALSE
     \/ unsaved' = TRUE /\ (Replaced(op.copy) \/ UNCHANGED saved) /\ UNCHANGED unguarded
  /\ op' = NoOp /\ Goto(s, "serving")
  /\ owed' = owed + 1
  /\ UNCHANGED <<memoryVars, validator, boundVars, undeleted>>

\* Faulty: every gamepad is retained in a long outage.
AllowedInOutage(s) == IF ByLicence(s) THEN Licensed ELSE window = "open"

\* device_is_authorized(), which picks the gamepad that is retained.
Allowed(s) ==
  IF ByLicence(s) THEN Licensed /\ (outage = "long" => retained \in {s, None})
                  ELSE window = "open"

\* Asked every second at least; the client's end ends the session too.
Poll(s) ==
  /\ At(s) = "serving"
  /\ IF Allowed(s)
       THEN /\ ByLicence(s) /\ outage = "long" /\ retained = None
            /\ retained' = s /\ UNCHANGED sessions
       ELSE Goto(s, "ending") /\ UNCHANGED retained
  /\ UNCHANGED <<licence, age, outage, online, window, licensed, op, validator, saved,
                 boundVars, historyVars>>

ClientEnds(s) ==
  /\ At(s) = "serving" /\ Goto(s, "ending")
  /\ UNCHANGED <<memoryVars, op, validator, saved, boundVars, historyVars>>

\* IOHIDUserDeviceCancel(), the wait for it, and remove_device().
RemoveDevice(s) ==
  /\ At(s) = "ending"
  /\ retained' = IF retained = s THEN None ELSE retained
  /\ licensed' = IF ByLicence(s) THEN licensed - 1 ELSE licensed
  /\ sessions' = [sessions EXCEPT ![s] = Idle]
  /\ UNCHANGED <<licence, age, outage, online, window, op, validator, saved,
                 boundVars, historyVars>>

-----------------------------------------------------------------------------
(* validate(), for the constructor ("start"), the validator ("timer") or a *)
(* client.  The call to Polar is one step with what follows it up to the   *)
(* next write of the file: the licence does not change meanwhile.          *)

Begins(kind, by, at, l) == op' = [kind |-> kind, by |-> by, at |-> at, copy |-> l]

BeginOutage ==
  /\ online' = FALSE
  /\ outage' = IF outage = "none" THEN "recent" ELSE outage

\* No answer, or none that counts; Polar may have counted the gamepads all the same.
ValidationFails ==
  /\ BeginOutage
  /\ UNCHANGED <<licence, age, op, owed>>

\* The activation is unknown (404), or the licence revoked.
ValidationRefused(by) ==
  /\ BeginOutage \/ UNCHANGED <<online, outage>>
  /\ licence' = NoLicence /\ age' = "none" /\ owed' = 0
  /\ Begins("validate", by, "delete", NoLicence)

\* Polar has counted what was pending.
ValidationGranted(by) ==
  /\ Begins("validate", by, "save", [licence EXCEPT !.pending = 0])
  /\ owed' = IF owed > licence.pending THEN owed - licence.pending ELSE 0
  /\ UNCHANGED <<licence, age, outage, online>>

Validate(by) ==
  /\ op = NoOp /\ Has(licence)
  /\ ValidationFails \/ ValidationRefused(by) \/ ValidationGranted(by)
  /\ UNCHANGED <<window, licensed, retained, sessions, saved, devices,
                 unsaved, undeleted, unguarded>>

\* The end of validate() and activate(): save_state(), which may fail before or after it
\* replaced the file, and then the operation.
Save ==
  /\ op.kind \in {"validate", "activate"} /\ op.at = "save"
  /\ \/ saved' = op.copy /\ op' = [op EXCEPT !.at = "commit"]
        /\ unsaved' = FALSE /\ undeleted' = FALSE /\ unguarded' = FALSE
     \/ op' = NoOp /\ UNCHANGED <<saved, unsaved, undeleted, unguarded>>
     \/ op' = NoOp /\ Replaced(op.copy) /\ unguarded' = TRUE /\ UNCHANGED <<unsaved, undeleted>>
  /\ UNCHANGED <<memoryVars, validator, sessions, boundVars, owed>>

Commit ==
  /\ op.kind \in {"validate", "activate"} /\ op.at = "commit"
  /\ licence' = op.copy /\ age' = "fresh"
  /\ outage' = "none" /\ online' = TRUE /\ retained' = None
  /\ owed' = IF licence.key = op.copy.key THEN owed ELSE 0
  /\ op' = NoOp
  /\ UNCHANGED <<window, licensed, validator, sessions, saved, boundVars, unsaved,
                 undeleted, unguarded>>

\* removeItemAtPath(), whose error is ignored.
DeleteFile ==
  /\ op.kind \in {"validate", "deactivate"} /\ op.at = "delete"
  /\ \/ saved' = NoLicence /\ unsaved' = FALSE /\ unguarded' = FALSE /\ UNCHANGED undeleted
     \/ undeleted' = TRUE /\ UNCHANGED <<saved, unsaved, unguarded>>
  /\ op' = IF op.kind = "validate" THEN NoOp ELSE [op EXCEPT !.at = "commit"]
  /\ UNCHANGED <<memoryVars, validator, sessions, boundVars, owed>>

-----------------------------------------------------------------------------
(* The licence requests of clients.  One that fails changes nothing.       *)

Requested == Serves /\ events < MaxEvents /\ events' = events + 1

RequestValidate ==
  /\ Requested
  /\ Validate("client")
  /\ UNCHANGED validator

\* Faulty: the activation starts a new count although the key is the same.
ActivationForgetsUsage(key) ==
  /\ Requested
  /\ op = NoOp
  /\ Begins("activate", "client", "save", [key |-> key, pending |-> 0])
  /\ UNCHANGED <<memoryVars, validator, sessions, saved, devices, historyVars>>

\* activate(): Polar grants an activation.
RequestActivate(key) ==
  /\ Requested
  /\ op = NoOp
  /\ Begins("activate", "client", "save",
            [key |-> key, pending |-> IF licence.key = key THEN licence.pending ELSE 0])
  /\ UNCHANGED <<memoryVars, validator, sessions, saved, devices, historyVars>>

\* deactivate(): Polar has released the activation, or does not know it.
RequestDeactivate ==
  /\ Requested
  /\ op = NoOp /\ Has(licence)
  /\ Begins("deactivate", "client", "delete", NoLicence)
  /\ UNCHANGED <<memoryVars, validator, sessions, saved, devices, historyVars>>

\* The end of deactivate().
Deactivated ==
  /\ op.kind = "deactivate" /\ op.at = "commit"
  /\ licence' = NoLicence /\ age' = "none" /\ online' = FALSE
  /\ owed' = 0 /\ op' = NoOp
  /\ UNCHANGED <<outage, window, licensed, retained, validator, sessions, saved,
                 boundVars, unsaved, undeleted, unguarded>>

-----------------------------------------------------------------------------
(* background_validation() and the constructor.                            *)

\* What the thread asks when it wakes: only the age counts.
Due == Has(licence) /\ age # "fresh"

\* Once a minute.
Wake ==
  /\ validator = "sleeping" /\ (op # NoOp => op.by \notin {"start", "timer"})
  /\ validator' = IF Due THEN "due" ELSE "sleeping"
  /\ UNCHANGED <<memoryVars, op, sessions, saved, boundVars, historyVars>>

ValidatorRuns ==
  /\ validator \in {"starting", "due"} /\ op = NoOp
  /\ validator' = "sleeping"
  /\ \/ Validate(IF validator = "starting" THEN "start" ELSE "timer") /\ UNCHANGED events
     \/ /\ ~Has(licence)
        /\ UNCHANGED <<memoryVars, op, sessions, saved, boundVars, historyVars>>

\* The broker ends, with its gamepads, and is started again.
Restart ==
  /\ events < MaxEvents /\ events' = events + 1
  /\ licence' = saved /\ age' = "none" /\ outage' = "none" /\ online' = FALSE
  /\ licensed' = 0 /\ retained' = None
  /\ op' = NoOp /\ sessions' = [s \in Sessions |-> Idle]
  /\ validator' = IF Has(saved) THEN "starting" ELSE "sleeping"
  /\ owed' = IF saved.key # licence.key THEN 0
             ELSE IF unsaved /\ owed > saved.pending THEN saved.pending ELSE owed
  /\ unsaved' = FALSE /\ undeleted' = FALSE /\ unguarded' = FALSE
  /\ UNCHANGED <<window, saved, devices>>

-----------------------------------------------------------------------------
(* Time.                                                                   *)

TimePasses ==
  /\ \/ age = "fresh" /\ age' = "due" /\ UNCHANGED <<outage, window>>
     \/ age = "due" /\ age' = "lapsed" /\ UNCHANGED <<outage, window>>
     \/ outage = "recent" /\ outage' = "long" /\ UNCHANGED <<age, window>>
     \/ window = "open" /\ window' = "over" /\ UNCHANGED <<age, outage>>
  /\ UNCHANGED <<licence, online, licensed, retained, op, validator, sessions, saved,
                 boundVars, historyVars>>

-----------------------------------------------------------------------------
Served(s) == SaveCount(s) \/ Poll(s) \/ RemoveDevice(s)

Operation == Save \/ Commit \/ DeleteFile \/ Deactivated

Next ==
  \/ \E s \in Sessions : Authorize(s) \/ AuthorizeEvaluation(s) \/ CreateFails(s) \/ AddDevice(s)
                         \/ Served(s) \/ ClientEnds(s)
  \/ Operation \/ RequestValidate \/ RequestDeactivate \/ (\E key \in Keys : RequestActivate(key))
  \/ Wake \/ ValidatorRuns \/ Restart \/ TimePasses

Spec == Init /\ [][Next]_vars

\* The threads run, and calls to Polar return.  Nothing is assumed of what Polar
\* answers, of clients or of time.
Fairness == WF_vars(Operation) /\ \A s \in Sessions : WF_vars(Served(s))

-----------------------------------------------------------------------------
Serving(s) == At(s) \in {"counted", "serving", "ending"}

\* Whenever no operation is under way the file holds the licence in memory, with its
\* count, and none if there is none: no end of the broker loses a licence or brings
\* back one that is gone, unless a file could not be saved, deleted or protected.
FileIsMemory == op = NoOp /\ ~unsaved /\ ~undeleted /\ ~unguarded => saved = licence

\* Each gamepad that was served is counted by Polar or still pending, in memory and in
\* the file, although counts, validations and the end of the broker interleave.
UsagePending ==
  /\ Has(licence) => owed <= licence.pending
  /\ Has(saved) /\ saved.key = licence.key /\ ~unsaved => owed <= saved.pending

\* docs/macos-gamepad.md:43-44, "While Polar validation is unavailable, new creation is
\* limited to one active virtual gamepad": no two there are were authorised then.
OneOffline ==
  \A s, u \in Sessions :
    /\ sessions[s].offline /\ At(s) \in {"counted", "serving"}
    /\ sessions[u].offline /\ At(u) \in {"counted", "serving"}
    => s = u

Permitted(s) == IF ByLicence(s) THEN Licensed ELSE window = "open"

\* Gamepads that are served go when their licence is gone or lapsed or their evaluation
\* is over, and all but one when Polar stays unavailable for more than an hour.
GamepadsGo ==
  []<>(\A s \in Sessions : Serving(s) =>
         /\ Permitted(s)
         /\ ByLicence(s) /\ outage = "long" =>
              ~\E u \in Sessions \ {s} : Serving(u) /\ ByLicence(u))
=============================================================================
