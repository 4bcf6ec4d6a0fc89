--------------------------- MODULE BrokersProofs ----------------------------
(* Proofs about the brokers that MCBrokers puts side by side: WindowsBroker, *)
(* for any number of clients, keys, devices and activations; then the        *)
(* licence manager of macOS, MacosLicense, for any number of sessions, keys, *)
(* gamepads, licence requests and restarts.                                  *)
EXTENDS MCBrokers, FiniteSetTheorems, TLAPS

\* Labels under license_operation_mutex_, and those of the validation thread.
Holding == {"call", "open_file", "write_file", "commit", "delete_then_reset", "delete_file"}
Saving == {"open_file", "write_file", "commit"}
Making == {"create_device", "register"}
ValidatorLabels == (Holding \ {"delete_then_reset"}) \cup
                   {"begin", "schedule_interval", "schedule_retry", "wait", "dead"}

\* The parts of TypeOK.
StateTypes ==
  /\ online \in BOOLEAN /\ revoke \in BOOLEAN /\ reconciled \in BOOLEAN
  /\ outage \in {"none", "recent", "long"}
  /\ attempt \in {"none", "interval", "retry", "due"}
  /\ window \in {"none", "unused", "open", "over"}
  /\ opLock \in Threads \cup {None}
  /\ pc \in [Threads -> Labels] /\ op \in [Threads -> Operations]

LicenceTypes ==
  /\ license \in Licences \cup {None}
  /\ draft \in Licences \cup {None}
  /\ saved \in Licences \cup {None}

DeviceTypes ==
  /\ devices \subseteq Devices /\ cleanup \subseteq Devices /\ driver \subseteq Devices
  /\ job \in Devices \cup {None}
  /\ alive \subseteq Clients /\ made \in 0..MaxDevices

UsageTypes ==
  /\ granted \subseteq 1..MaxActivations /\ activations \in 0..MaxActivations
  /\ recorded \in 0..MaxDevices /\ counted \in 0..MaxDevices

\* Where the threads are and what they do there; one at a time holds the mutex.
ThreadInv ==
  /\ pc["validator"] \in ValidatorLabels /\ op["validator"] \in {"none", "validate"}
  /\ pc["validator"] = "dead" <=> pc["service"] = "dead"
  /\ pc["service"] # "wait"
  /\ \A t \in Threads :
       /\ pc[t] \in Holding => opLock = t
       /\ pc[t] \in {"begin"} \cup Holding => op[t] # "none"
       /\ pc[t] = "call" => op[t] # "record"
       /\ pc[t] \in Saving => op[t] # "deactivate" /\ draft \in Licences
       /\ pc[t] = "call" /\ op[t] # "activate" => draft \in Licences

\* The device that is created is the next one.
JobInv ==
  /\ pc["service"] \in Making => job \in Devices
  /\ pc["service"] = "create_device" => job.id = made + 1

\* A licensed gamepad that exists and is not counted yet.
Uncounted ==
  IF pc["service"] = "register" \/ (pc["service"] = "begin" /\ op["service"] = "record")
    THEN 1 ELSE 0

\* No licence, in memory or in the file, has more usage than there were devices.
CountInv ==
  /\ recorded + Uncounted <= made
  /\ \A l \in {license, draft, saved} : l \in Licences => l.pending + Uncounted <= made

\* What a licence operation works on is what it started from, with the outcome of its call.
DraftInv ==
  \A t \in Threads :
    /\ pc[t] = "call" /\ op[t] # "activate" =>
         /\ license # None /\ draft.key = license.key /\ draft.pending = license.pending
    /\ pc[t] \in Saving /\ op[t] # "record" => draft.age = "current"
    /\ pc[t] \in Saving /\ op[t] = "validate" => draft.pending = 0 /\ counted >= recorded
    /\ pc[t] \in Saving /\ op[t] = "activate" /\ license # None /\ license.key = draft.key =>
         draft.pending = license.pending

\* A licensed device is made only under a licence that was good when it was authorised:
\* if that is gone since, the order to revoke is out.
JobCovered ==
  pc["service"] \in Making /\ ~job.evaluation =>
    /\ license # None \/ revoke
    /\ license # None /\ license.key \in Yearly => license.age # "unknown"

IInv ==
  /\ TypeOK /\ ThreadInv /\ JobInv /\ CountInv /\ DraftInv /\ JobCovered
  /\ DriverDevicesTracked /\ LicensedDevicesAreCovered /\ UsageNotLost

-----------------------------------------------------------------------------
(* Licences and how they change.                                             *)

LEMMA LicenceFields ==
  ASSUME NEW l \in Licences
  PROVE  /\ l # None /\ l.key \in Keys /\ l.activation \in 1..MaxActivations
         /\ l.age \in {"current", "lapsed", "unknown"} /\ l.pending \in 0..MaxDevices
BY NoneIsNoLicence DEF Licences

LEMMA Aging ==
  ASSUME NEW l \in Licences, NEW standing \in {"current", "lapsed", "unknown"}
  PROVE  /\ Aged(l, standing) \in Licences /\ Lapse(l) \in Licences
         /\ Aged(l, standing).key = l.key /\ Aged(l, standing).pending = l.pending
         /\ Lapse(l).key = l.key /\ Lapse(l).pending = l.pending
         /\ Lapse(l).age \in {l.age, "lapsed"}
BY DEF Licences, Aged, Lapse

LEMMA OneMore ==
  ASSUME NEW l \in Licences, l.pending < MaxDevices
  PROVE  /\ [l EXCEPT !.pending = @ + 1] \in Licences
         /\ [l EXCEPT !.pending = @ + 1].key = l.key
         /\ [l EXCEPT !.pending = @ + 1].age = l.age
         /\ [l EXCEPT !.pending = @ + 1].pending = l.pending + 1
BY BrokerAssumption DEF Licences

LEMMA Reported ==
  ASSUME NEW l \in Licences
  PROVE  LET r == [l EXCEPT !.age = "current", !.pending = 0] IN
           r \in Licences /\ r.key = l.key /\ r.age = "current" /\ r.pending = 0
<1>1. 0 \in 0..MaxDevices
  BY BrokerAssumption
<1>2. QED
  BY <1>1 DEF Licences

\* A gamepad is counted once at most.
LEMMA RecordFits ==
  ASSUME TypeOK, ThreadInv, CountInv, NEW t \in Threads, BeginRecord(t)
  PROVE  /\ t = "service" /\ Uncounted = 1
         /\ license \in Licences /\ license.pending < MaxDevices /\ recorded < made
<1>1. t = "service" /\ pc["service"] = "begin" /\ op["service"] = "record" /\ license # None
  BY DEF BeginRecord, ThreadInv, Threads
<1>2. Uncounted = 1
  BY <1>1 DEF Uncounted
<1>3. license \in Licences /\ license.pending \in Nat
  BY <1>1, LicenceFields DEF TypeOK
<1>4. license.pending + 1 <= made /\ recorded + 1 <= made /\ made \in 0..MaxDevices
  BY <1>2, <1>3 DEF CountInv, TypeOK
<1>5. QED
  BY <1>1, <1>2, <1>3, <1>4, BrokerAssumption DEF TypeOK

\* One thread at a time holds the mutex.
LEMMA ThreadInvNext ==
  ASSUME TypeOK, ThreadInv, CountInv, [Next]_vars
  PROVE  ThreadInv'
<1> USE DEF TypeOK, ThreadInv, Threads, Holding, Saving, ValidatorLabels
<1>1. ASSUME Start PROVE ThreadInv'
  BY <1>1 DEF Start, files, world
<1>2. ASSUME NEW ok \in BOOLEAN, Construct(ok) PROVE ThreadInv'
  BY <1>2 DEF Construct, ResetDevices, Goto, files, polar
<1>3. ASSUME NEW ok \in BOOLEAN, Reconcile(ok) PROVE ThreadInv'
  BY <1>3 DEF Reconcile, ResetDevices, Goto, files, polar
<1>4. ASSUME CleanupSelect PROVE ThreadInv'
  BY <1>4 DEF CleanupSelect, Goto, files, polar, world
<1>5. ASSUME CleanupFinish PROVE ThreadInv'
  BY <1>5 DEF CleanupFinish, Goto, files, polar, world
<1>6. ASSUME NEW d \in cleanup, CleanupDestroy(d) PROVE ThreadInv'
  BY <1>6 DEF CleanupDestroy, Destroy, files, polar
<1>7. ASSUME NEW d \in cleanup, CleanupFails(d) PROVE ThreadInv'
  BY <1>7 DEF CleanupFails, memory, files, polar, world
<1>8. ASSUME NoRequest PROVE ThreadInv'
  BY <1>8 DEF NoRequest, Goto, memory, files, polar, world
<1>9. ASSUME NEW o \in {"validate", "activate", "deactivate"}, RequestLicense(o)
      PROVE  ThreadInv'
  BY <1>9 DEF RequestLicense, Goto, memory, files, polar, world
<1>10. ASSUME NEW ok \in BOOLEAN, CreateReconcile(ok) PROVE ThreadInv'
  BY <1>10 DEF CreateReconcile, ResetDevices, Goto, files, polar
<1>11. ASSUME NEW d \in devices, DestroyDevice(d) PROVE ThreadInv'
  BY <1>11 DEF DestroyDevice, Destroy, Goto, files, polar
<1>12. ASSUME NEW c \in Clients, NEW k \in Kinds, Authorize(c, k) PROVE ThreadInv'
  BY <1>12 DEF Authorize, Creating, NewDevice, Goto, memory, files, polar, world
<1>13. ASSUME NEW c \in Clients, NEW k \in Kinds, AuthorizeEvaluation(c, k) PROVE ThreadInv'
  BY <1>13 DEF AuthorizeEvaluation, Creating, NewDevice, Goto, memory, polar, world
<1>14. ASSUME CreateRefused PROVE ThreadInv'
  BY <1>14 DEF CreateRefused, Goto, memory, files, polar, world
<1>15. ASSUME CreateInDriver PROVE ThreadInv'
  BY <1>15 DEF CreateInDriver, Goto, memory, files, polar
<1>16. ASSUME CreateFails PROVE ThreadInv'
  BY <1>16 DEF CreateFails, Goto, memory, files, polar, world
<1>17. ASSUME Register PROVE ThreadInv'
  BY <1>17 DEF Register, Goto, files, polar, world
<1>18. ASSUME ValidationDue PROVE ThreadInv'
  BY <1>18 DEF ValidationDue, Goto, files, polar, world
<1>19. ASSUME NEW t \in Threads, BeginWithoutLicence(t) PROVE ThreadInv'
  BY <1>19, BrokerAssumption DEF BeginWithoutLicence, Finish, memory, files, polar,
    world, Goto, After
<1>20. ASSUME NEW t \in Threads, BeginCall(t) PROVE ThreadInv'
  BY <1>20, BrokerAssumption DEF BeginCall, Goto, memory, files, polar, world
<1>21. ASSUME NEW t \in Threads, BeginRecord(t) PROVE ThreadInv'
  <2>1. license \in Licences /\ license.pending < MaxDevices
    BY <1>21, RecordFits
  <2>2. draft' \in Licences
    BY <1>21, <2>1, OneMore DEF BeginRecord
  <2>3. QED
    BY <1>21, <2>2, BrokerAssumption DEF BeginRecord, Goto, files, polar, world
<1>22. ASSUME NEW t \in Threads, CallFails(t) PROVE ThreadInv'
  BY <1>22 DEF CallFails, Unavailable, Finish, files, world, Goto, After,
    MarkUnavailable
<1>23. ASSUME NEW t \in Threads, ActivationRefused(t) PROVE ThreadInv'
  BY <1>23 DEF ActivationRefused, Finish, memory, files, polar, world, Goto, After
<1>24. ASSUME NEW t \in Threads, Denied(t) PROVE ThreadInv'
  BY <1>24 DEF Denied, ForgetLicence, Goto, files, polar, world
<1>25. ASSUME NEW t \in Threads, Deactivated(t) PROVE ThreadInv'
  BY <1>25 DEF Deactivated, Goto, memory, world
<1>26. ASSUME NEW t \in Threads, Validated(t) PROVE ThreadInv'
  <2>1. draft \in Licences /\ draft' = [draft EXCEPT !.age = "current", !.pending = 0]
    BY <1>26 DEF Validated
  <2>2. draft' \in Licences
    BY <2>1, Reported
  <2>3. QED
    BY <1>26, <2>1, <2>2 DEF Validated, Goto, memory, files, world
<1>27. ASSUME NEW t \in Threads, NEW k \in Keys, Activated(t, k) PROVE ThreadInv'
  <2>1. draft' \in Licences
    <3>1. activations + 1 \in 1..MaxActivations
      BY <1>27, BrokerAssumption DEF Activated
    <3>2. license # None => license.pending \in 0..MaxDevices
      BY DEF Licences
    <3>3. QED
      BY <1>27, <3>1, <3>2, BrokerAssumption DEF Activated, Licences
  <2>2. QED
    BY <1>27, <2>1 DEF Activated, Goto, memory, files, world
<1>28. ASSUME NEW t \in Threads, NEW ok \in BOOLEAN, DeleteFile(t, ok) PROVE ThreadInv'
  BY <1>28 DEF DeleteFile, Finish, memory, polar, world, Goto, After
<1>29. ASSUME NEW t \in Threads, ResetAfterDelete(t) PROVE ThreadInv'
  BY <1>29 DEF ResetAfterDelete, ForgetLicence, Finish, files, polar, world, Goto,
    After
<1>30. ASSUME NEW t \in Threads, OpenFile(t) PROVE ThreadInv'
  BY <1>30 DEF OpenFile, Goto, memory, polar, world
<1>31. ASSUME NEW t \in Threads, SaveFails(t) PROVE ThreadInv'
  BY <1>31 DEF SaveFails, Unavailable, Finish, files, polar, world, Goto, After,
    MarkUnavailable
<1>32. ASSUME NEW t \in Threads, WriteFile(t) PROVE ThreadInv'
  BY <1>32 DEF WriteFile, Goto, memory, polar, world
<1>33. ASSUME NEW t \in Threads, CommitRecord(t) PROVE ThreadInv'
  BY <1>33 DEF CommitRecord, Finish, memory, files, polar, world, Goto, After
<1>34. ASSUME NEW t \in Threads, Commit(t) PROVE ThreadInv'
  BY <1>34 DEF Commit, Finish, files, world, Goto, After
<1>35. ASSUME NEW t \in Threads, Schedule(t) PROVE ThreadInv'
  BY <1>35 DEF Schedule, Goto, files, polar, world
<1>36. ASSUME TimerFires PROVE ThreadInv'
  BY <1>36 DEF TimerFires, thread, files, polar, world
<1>37. ASSUME HourPasses PROVE ThreadInv'
  BY <1>37 DEF HourPasses, thread, files, polar, world
<1>38. ASSUME ValidationLapses PROVE ThreadInv'
  BY <1>38 DEF ValidationLapses, thread, polar, world
<1>39. ASSUME WindowCloses PROVE ThreadInv'
  BY <1>39 DEF WindowCloses, memory, thread, polar, world
<1>40. ASSUME NEW a \in granted, PolarRevokes(a) PROVE ThreadInv'
  BY <1>40 DEF PolarRevokes, memory, thread, files, world
<1>41. ASSUME NEW c \in alive, ClientDies(c) PROVE ThreadInv'
  BY <1>41 DEF ClientDies, memory, thread, files, polar
<1>42. ASSUME BrokerDies PROVE ThreadInv'
  BY <1>42 DEF BrokerDies, ProcessEnds, files, polar
<1>43. ASSUME WindowsRestarts PROVE ThreadInv'
  BY <1>43 DEF WindowsRestarts, ProcessEnds, polar
<1>44. CASE UNCHANGED vars
  BY <1>44 DEF vars, memory, thread, files, polar, world
<1> HIDE DEF ThreadInv
<1>45. QED
  BY <1>1, <1>2, <1>3, <1>4, <1>5, <1>6, <1>7, <1>8, <1>9, <1>10, <1>11, <1>12,
    <1>13, <1>14, <1>15, <1>16, <1>17, <1>18, <1>19, <1>20, <1>21, <1>22, <1>23,
    <1>24, <1>25, <1>26, <1>27, <1>28, <1>29, <1>30, <1>31, <1>32, <1>33, <1>34,
    <1>35, <1>36, <1>37, <1>38, <1>39, <1>40, <1>41, <1>42, <1>43, <1>44 DEF Next,
    Cleanup, Requests, Creation, LicenceStep, Environment

\* No device of the driver gets lost.
LEMMA TrackedNext ==
  ASSUME TypeOK, DriverDevicesTracked, [Next]_vars
  PROVE  DriverDevicesTracked'
<1> USE DEF DriverDevicesTracked, Running, Threads, TypeOK
<1>1. ASSUME Start PROVE DriverDevicesTracked'
  BY <1>1 DEF Start, files, world
<1>2. ASSUME NEW ok \in BOOLEAN, Construct(ok) PROVE DriverDevicesTracked'
  BY <1>2 DEF Construct, ResetDevices, Goto, files, polar
<1>3. ASSUME NEW ok \in BOOLEAN, Reconcile(ok) PROVE DriverDevicesTracked'
  BY <1>3 DEF Reconcile, ResetDevices, Goto, files, polar
<1>4. ASSUME CleanupSelect PROVE DriverDevicesTracked'
  BY <1>4 DEF CleanupSelect, Goto, files, polar, world
<1>5. ASSUME CleanupFinish PROVE DriverDevicesTracked'
  BY <1>5 DEF CleanupFinish, Goto, files, polar, world
<1>6. ASSUME NEW d \in cleanup, CleanupDestroy(d) PROVE DriverDevicesTracked'
  BY <1>6 DEF CleanupDestroy, Destroy, files, polar
<1>7. ASSUME NEW d \in cleanup, CleanupFails(d) PROVE DriverDevicesTracked'
  BY <1>7 DEF CleanupFails, memory, files, polar, world
<1>8. ASSUME NoRequest PROVE DriverDevicesTracked'
  BY <1>8 DEF NoRequest, Goto, memory, files, polar, world
<1>9. ASSUME NEW o \in {"validate", "activate", "deactivate"}, RequestLicense(o)
      PROVE  DriverDevicesTracked'
  BY <1>9 DEF RequestLicense, Goto, memory, files, polar, world
<1>10. ASSUME NEW ok \in BOOLEAN, CreateReconcile(ok) PROVE DriverDevicesTracked'
  BY <1>10 DEF CreateReconcile, ResetDevices, Goto, files, polar
<1>11. ASSUME NEW d \in devices, DestroyDevice(d) PROVE DriverDevicesTracked'
  BY <1>11 DEF DestroyDevice, Destroy, Goto, files, polar
<1>12. ASSUME NEW c \in Clients, NEW k \in Kinds, Authorize(c, k)
      PROVE  DriverDevicesTracked'
  BY <1>12 DEF Authorize, Creating, NewDevice, Goto, memory, files, polar, world
<1>13. ASSUME NEW c \in Clients, NEW k \in Kinds, AuthorizeEvaluation(c, k)
      PROVE  DriverDevicesTracked'
  BY <1>13 DEF AuthorizeEvaluation, Creating, NewDevice, Goto, memory, polar, world
<1>14. ASSUME CreateRefused PROVE DriverDevicesTracked'
  BY <1>14 DEF CreateRefused, Goto, memory, files, polar, world
<1>15. ASSUME CreateInDriver PROVE DriverDevicesTracked'
  BY <1>15 DEF CreateInDriver, Goto, memory, files, polar
<1>16. ASSUME CreateFails PROVE DriverDevicesTracked'
  BY <1>16 DEF CreateFails, Goto, memory, files, polar, world
<1>17. ASSUME Register PROVE DriverDevicesTracked'
  BY <1>17 DEF Register, Goto, files, polar, world
<1>18. ASSUME ValidationDue PROVE DriverDevicesTracked'
  BY <1>18 DEF ValidationDue, Goto, files, polar, world
<1>19. ASSUME NEW t \in Threads, BeginWithoutLicence(t) PROVE DriverDevicesTracked'
  BY <1>19 DEF BeginWithoutLicence, Finish, memory, files, polar, world, Goto, After
<1>20. ASSUME NEW t \in Threads, BeginCall(t) PROVE DriverDevicesTracked'
  BY <1>20 DEF BeginCall, Goto, memory, files, polar, world
<1>21. ASSUME NEW t \in Threads, BeginRecord(t) PROVE DriverDevicesTracked'
  BY <1>21 DEF BeginRecord, Goto, files, polar, world
<1>22. ASSUME NEW t \in Threads, CallFails(t) PROVE DriverDevicesTracked'
  BY <1>22 DEF CallFails, Unavailable, Finish, files, world, Goto, After,
    MarkUnavailable
<1>23. ASSUME NEW t \in Threads, ActivationRefused(t) PROVE DriverDevicesTracked'
  BY <1>23 DEF ActivationRefused, Finish, memory, files, polar, world, Goto, After
<1>24. ASSUME NEW t \in Threads, Denied(t) PROVE DriverDevicesTracked'
  BY <1>24 DEF Denied, ForgetLicence, Goto, files, polar, world
<1>25. ASSUME NEW t \in Threads, Deactivated(t) PROVE DriverDevicesTracked'
  BY <1>25 DEF Deactivated, Goto, memory, world
<1>26. ASSUME NEW t \in Threads, Validated(t) PROVE DriverDevicesTracked'
  BY <1>26 DEF Validated, Goto, memory, files, world
<1>27. ASSUME NEW t \in Threads, NEW k \in Keys, Activated(t, k) PROVE DriverDevicesTracked'
  BY <1>27 DEF Activated, Goto, memory, files, world
<1>28. ASSUME NEW t \in Threads, NEW ok \in BOOLEAN, DeleteFile(t, ok)
      PROVE  DriverDevicesTracked'
  BY <1>28 DEF DeleteFile, Finish, memory, polar, world, Goto, After
<1>29. ASSUME NEW t \in Threads, ResetAfterDelete(t) PROVE DriverDevicesTracked'
  BY <1>29 DEF ResetAfterDelete, ForgetLicence, Finish, files, polar, world, Goto,
    After
<1>30. ASSUME NEW t \in Threads, OpenFile(t) PROVE DriverDevicesTracked'
  BY <1>30 DEF OpenFile, Goto, memory, polar, world
<1>31. ASSUME NEW t \in Threads, SaveFails(t) PROVE DriverDevicesTracked'
  BY <1>31 DEF SaveFails, Unavailable, Finish, files, polar, world, Goto, After,
    MarkUnavailable
<1>32. ASSUME NEW t \in Threads, WriteFile(t) PROVE DriverDevicesTracked'
  BY <1>32 DEF WriteFile, Goto, memory, polar, world
<1>33. ASSUME NEW t \in Threads, CommitRecord(t) PROVE DriverDevicesTracked'
  BY <1>33 DEF CommitRecord, Finish, memory, files, polar, world, Goto, After
<1>34. ASSUME NEW t \in Threads, Commit(t) PROVE DriverDevicesTracked'
  BY <1>34 DEF Commit, Finish, files, world, Goto, After
<1>35. ASSUME NEW t \in Threads, Schedule(t) PROVE DriverDevicesTracked'
  BY <1>35 DEF Schedule, Goto, files, polar, world
<1>36. ASSUME TimerFires PROVE DriverDevicesTracked'
  BY <1>36 DEF TimerFires, thread, files, polar, world
<1>37. ASSUME HourPasses PROVE DriverDevicesTracked'
  BY <1>37 DEF HourPasses, thread, files, polar, world
<1>38. ASSUME ValidationLapses PROVE DriverDevicesTracked'
  BY <1>38 DEF ValidationLapses, thread, polar, world
<1>39. ASSUME WindowCloses PROVE DriverDevicesTracked'
  BY <1>39 DEF WindowCloses, memory, thread, polar, world
<1>40. ASSUME NEW a \in granted, PolarRevokes(a) PROVE DriverDevicesTracked'
  BY <1>40 DEF PolarRevokes, memory, thread, files, world
<1>41. ASSUME NEW c \in alive, ClientDies(c) PROVE DriverDevicesTracked'
  BY <1>41 DEF ClientDies, memory, thread, files, polar
<1>42. ASSUME BrokerDies PROVE DriverDevicesTracked'
  BY <1>42 DEF BrokerDies, ProcessEnds, files, polar
<1>43. ASSUME WindowsRestarts PROVE DriverDevicesTracked'
  BY <1>43 DEF WindowsRestarts, ProcessEnds, polar
<1>44. CASE UNCHANGED vars
  BY <1>44 DEF vars, memory, thread, files, polar, world
<1> HIDE DEF DriverDevicesTracked
<1>45. QED
  BY <1>1, <1>2, <1>3, <1>4, <1>5, <1>6, <1>7, <1>8, <1>9, <1>10, <1>11, <1>12,
    <1>13, <1>14, <1>15, <1>16, <1>17, <1>18, <1>19, <1>20, <1>21, <1>22, <1>23,
    <1>24, <1>25, <1>26, <1>27, <1>28, <1>29, <1>30, <1>31, <1>32, <1>33, <1>34,
    <1>35, <1>36, <1>37, <1>38, <1>39, <1>40, <1>41, <1>42, <1>43, <1>44 DEF Next,
    Cleanup, Requests, Creation, LicenceStep, Environment

LEMMA Parts == TypeOK <=> StateTypes /\ LicenceTypes /\ DeviceTypes /\ UsageTypes
BY DEF TypeOK, StateTypes, LicenceTypes, DeviceTypes, UsageTypes

\* The types are kept: those of the broker's state and threads,
LEMMA StateTypesNext ==
  ASSUME StateTypes, ThreadInv, [Next]_vars
  PROVE  StateTypes'
<1> USE DEF StateTypes, ThreadInv, Threads, Labels, Operations
<1>1. ASSUME Start PROVE StateTypes'
  BY <1>1 DEF Start, files, world
<1>2. ASSUME NEW ok \in BOOLEAN, Construct(ok) PROVE StateTypes'
  BY <1>2 DEF Construct, ResetDevices, Goto, files, polar
<1>3. ASSUME NEW ok \in BOOLEAN, Reconcile(ok) PROVE StateTypes'
  BY <1>3 DEF Reconcile, ResetDevices, Goto, files, polar
<1>4. ASSUME CleanupSelect PROVE StateTypes'
  BY <1>4 DEF CleanupSelect, Goto, files, polar, world
<1>5. ASSUME CleanupFinish PROVE StateTypes'
  BY <1>5 DEF CleanupFinish, Goto, files, polar, world
<1>6. ASSUME NEW d \in cleanup, CleanupDestroy(d) PROVE StateTypes'
  BY <1>6 DEF CleanupDestroy, Destroy, files, polar
<1>7. ASSUME NEW d \in cleanup, CleanupFails(d) PROVE StateTypes'
  BY <1>7 DEF CleanupFails, memory, files, polar, world
<1>8. ASSUME NoRequest PROVE StateTypes'
  BY <1>8 DEF NoRequest, Goto, memory, files, polar, world
<1>9. ASSUME NEW o \in {"validate", "activate", "deactivate"}, RequestLicense(o)
      PROVE  StateTypes'
  BY <1>9 DEF RequestLicense, Goto, memory, files, polar, world
<1>10. ASSUME NEW ok \in BOOLEAN, CreateReconcile(ok) PROVE StateTypes'
  BY <1>10 DEF CreateReconcile, ResetDevices, Goto, files, polar
<1>11. ASSUME NEW d \in devices, DestroyDevice(d) PROVE StateTypes'
  BY <1>11 DEF DestroyDevice, Destroy, Goto, files, polar
<1>12. ASSUME NEW c \in Clients, NEW k \in Kinds, Authorize(c, k) PROVE StateTypes'
  BY <1>12 DEF Authorize, Creating, NewDevice, Goto, memory, files, polar, world
<1>13. ASSUME NEW c \in Clients, NEW k \in Kinds, AuthorizeEvaluation(c, k)
      PROVE  StateTypes'
  BY <1>13 DEF AuthorizeEvaluation, Creating, NewDevice, Goto, memory, polar, world
<1>14. ASSUME CreateRefused PROVE StateTypes'
  BY <1>14 DEF CreateRefused, Goto, memory, files, polar, world
<1>15. ASSUME CreateInDriver PROVE StateTypes'
  BY <1>15 DEF CreateInDriver, Goto, memory, files, polar
<1>16. ASSUME CreateFails PROVE StateTypes'
  BY <1>16 DEF CreateFails, Goto, memory, files, polar, world
<1>17. ASSUME Register PROVE StateTypes'
  BY <1>17 DEF Register, Goto, files, polar, world
<1>18. ASSUME ValidationDue PROVE StateTypes'
  BY <1>18 DEF ValidationDue, Goto, files, polar, world
<1>19. ASSUME NEW t \in Threads, BeginWithoutLicence(t) PROVE StateTypes'
  BY <1>19 DEF BeginWithoutLicence, Finish, memory, files, polar, world, Goto, After
<1>20. ASSUME NEW t \in Threads, BeginCall(t) PROVE StateTypes'
  BY <1>20 DEF BeginCall, Goto, memory, files, polar, world
<1>21. ASSUME NEW t \in Threads, BeginRecord(t) PROVE StateTypes'
  BY <1>21 DEF BeginRecord, Goto, files, polar, world
<1>22. ASSUME NEW t \in Threads, CallFails(t) PROVE StateTypes'
  BY <1>22 DEF CallFails, Unavailable, Finish, files, world, Goto, After,
    MarkUnavailable
<1>23. ASSUME NEW t \in Threads, ActivationRefused(t) PROVE StateTypes'
  BY <1>23 DEF ActivationRefused, Finish, memory, files, polar, world, Goto, After
<1>24. ASSUME NEW t \in Threads, Denied(t) PROVE StateTypes'
  BY <1>24 DEF Denied, ForgetLicence, Goto, files, polar, world
<1>25. ASSUME NEW t \in Threads, Deactivated(t) PROVE StateTypes'
  BY <1>25 DEF Deactivated, Goto, memory, world
<1>26. ASSUME NEW t \in Threads, Validated(t) PROVE StateTypes'
  BY <1>26 DEF Validated, Goto, memory, files, world
<1>27. ASSUME NEW t \in Threads, NEW k \in Keys, Activated(t, k) PROVE StateTypes'
  BY <1>27 DEF Activated, Goto, memory, files, world
<1>28. ASSUME NEW t \in Threads, NEW ok \in BOOLEAN, DeleteFile(t, ok) PROVE StateTypes'
  BY <1>28 DEF DeleteFile, Finish, memory, polar, world, Goto, After
<1>29. ASSUME NEW t \in Threads, ResetAfterDelete(t) PROVE StateTypes'
  BY <1>29 DEF ResetAfterDelete, ForgetLicence, Finish, files, polar, world, Goto,
    After
<1>30. ASSUME NEW t \in Threads, OpenFile(t) PROVE StateTypes'
  BY <1>30 DEF OpenFile, Goto, memory, polar, world
<1>31. ASSUME NEW t \in Threads, SaveFails(t) PROVE StateTypes'
  BY <1>31 DEF SaveFails, Unavailable, Finish, files, polar, world, Goto, After,
    MarkUnavailable
<1>32. ASSUME NEW t \in Threads, WriteFile(t) PROVE StateTypes'
  BY <1>32 DEF WriteFile, Goto, memory, polar, world
<1>33. ASSUME NEW t \in Threads, CommitRecord(t) PROVE StateTypes'
  BY <1>33 DEF CommitRecord, Finish, memory, files, polar, world, Goto, After
<1>34. ASSUME NEW t \in Threads, Commit(t) PROVE StateTypes'
  BY <1>34 DEF Commit, Finish, files, world, Goto, After
<1>35. ASSUME NEW t \in Threads, Schedule(t) PROVE StateTypes'
  BY <1>35 DEF Schedule, Goto, files, polar, world
<1>36. ASSUME TimerFires PROVE StateTypes'
  BY <1>36 DEF TimerFires, thread, files, polar, world
<1>37. ASSUME HourPasses PROVE StateTypes'
  BY <1>37 DEF HourPasses, thread, files, polar, world
<1>38. ASSUME ValidationLapses PROVE StateTypes'
  BY <1>38 DEF ValidationLapses, thread, polar, world
<1>39. ASSUME WindowCloses PROVE StateTypes'
  BY <1>39 DEF WindowCloses, memory, thread, polar, world
<1>40. ASSUME NEW a \in granted, PolarRevokes(a) PROVE StateTypes'
  BY <1>40 DEF PolarRevokes, memory, thread, files, world
<1>41. ASSUME NEW c \in alive, ClientDies(c) PROVE StateTypes'
  BY <1>41 DEF ClientDies, memory, thread, files, polar
<1>42. ASSUME BrokerDies PROVE StateTypes'
  BY <1>42 DEF BrokerDies, ProcessEnds, files, polar
<1>43. ASSUME WindowsRestarts PROVE StateTypes'
  BY <1>43 DEF WindowsRestarts, ProcessEnds, polar
<1>44. CASE UNCHANGED vars
  BY <1>44 DEF vars, memory, thread, files, polar, world
<1> HIDE DEF StateTypes
<1>45. QED
  BY <1>1, <1>2, <1>3, <1>4, <1>5, <1>6, <1>7, <1>8, <1>9, <1>10, <1>11, <1>12,
    <1>13, <1>14, <1>15, <1>16, <1>17, <1>18, <1>19, <1>20, <1>21, <1>22, <1>23,
    <1>24, <1>25, <1>26, <1>27, <1>28, <1>29, <1>30, <1>31, <1>32, <1>33, <1>34,
    <1>35, <1>36, <1>37, <1>38, <1>39, <1>40, <1>41, <1>42, <1>43, <1>44 DEF Next,
    Cleanup, Requests, Creation, LicenceStep, Environment

\* of licences,
LEMMA LicenceTypesNext ==
  ASSUME TypeOK, ThreadInv, CountInv, LicenceTypes, [Next]_vars
  PROVE  LicenceTypes'
<1> USE DEF LicenceTypes
<1>1. ASSUME Start PROVE LicenceTypes'
  BY <1>1 DEF Start, files, world
<1>2. ASSUME NEW ok \in BOOLEAN, Construct(ok) PROVE LicenceTypes'
  BY <1>2 DEF Construct, ResetDevices, Goto, files, polar
<1>3. ASSUME NEW ok \in BOOLEAN, Reconcile(ok) PROVE LicenceTypes'
  BY <1>3 DEF Reconcile, ResetDevices, Goto, files, polar
<1>4. ASSUME CleanupSelect PROVE LicenceTypes'
  BY <1>4 DEF CleanupSelect, Goto, files, polar, world
<1>5. ASSUME CleanupFinish PROVE LicenceTypes'
  BY <1>5 DEF CleanupFinish, Goto, files, polar, world
<1>6. ASSUME NEW d \in cleanup, CleanupDestroy(d) PROVE LicenceTypes'
  BY <1>6 DEF CleanupDestroy, Destroy, files, polar
<1>7. ASSUME NEW d \in cleanup, CleanupFails(d) PROVE LicenceTypes'
  BY <1>7 DEF CleanupFails, memory, files, polar, world
<1>8. ASSUME NoRequest PROVE LicenceTypes'
  BY <1>8 DEF NoRequest, Goto, memory, files, polar, world
<1>9. ASSUME NEW o \in {"validate", "activate", "deactivate"}, RequestLicense(o)
      PROVE  LicenceTypes'
  BY <1>9 DEF RequestLicense, Goto, memory, files, polar, world
<1>10. ASSUME NEW ok \in BOOLEAN, CreateReconcile(ok) PROVE LicenceTypes'
  BY <1>10 DEF CreateReconcile, ResetDevices, Goto, files, polar
<1>11. ASSUME NEW d \in devices, DestroyDevice(d) PROVE LicenceTypes'
  BY <1>11 DEF DestroyDevice, Destroy, Goto, files, polar
<1>12. ASSUME NEW c \in Clients, NEW k \in Kinds, Authorize(c, k) PROVE LicenceTypes'
  BY <1>12 DEF Authorize, Creating, NewDevice, Goto, memory, files, polar, world
<1>13. ASSUME NEW c \in Clients, NEW k \in Kinds, AuthorizeEvaluation(c, k)
      PROVE  LicenceTypes'
  BY <1>13 DEF AuthorizeEvaluation, Creating, NewDevice, Goto, memory, polar, world
<1>14. ASSUME CreateRefused PROVE LicenceTypes'
  BY <1>14 DEF CreateRefused, Goto, memory, files, polar, world
<1>15. ASSUME CreateInDriver PROVE LicenceTypes'
  BY <1>15 DEF CreateInDriver, Goto, memory, files, polar
<1>16. ASSUME CreateFails PROVE LicenceTypes'
  BY <1>16 DEF CreateFails, Goto, memory, files, polar, world
<1>17. ASSUME Register PROVE LicenceTypes'
  BY <1>17 DEF Register, Goto, files, polar, world
<1>18. ASSUME ValidationDue PROVE LicenceTypes'
  BY <1>18 DEF ValidationDue, Goto, files, polar, world
<1>19. ASSUME NEW t \in Threads, BeginWithoutLicence(t) PROVE LicenceTypes'
  BY <1>19 DEF BeginWithoutLicence, Finish, memory, files, polar, world, Goto, After
<1>20. ASSUME NEW t \in Threads, BeginCall(t) PROVE LicenceTypes'
  BY <1>20 DEF BeginCall, Goto, memory, files, polar, world
<1>21. ASSUME NEW t \in Threads, BeginRecord(t) PROVE LicenceTypes'
  <2>1. license \in Licences /\ license.pending < MaxDevices
    BY <1>21, RecordFits DEF TypeOK
  <2>2. license' \in Licences /\ draft' = license' /\ saved' = saved
    BY <1>21, <2>1, OneMore DEF BeginRecord, files
  <2>3. QED
    BY <2>2
<1>22. ASSUME NEW t \in Threads, CallFails(t) PROVE LicenceTypes'
  BY <1>22 DEF CallFails, Unavailable, Finish, files, world, Goto, After,
    MarkUnavailable
<1>23. ASSUME NEW t \in Threads, ActivationRefused(t) PROVE LicenceTypes'
  BY <1>23 DEF ActivationRefused, Finish, memory, files, polar, world, Goto, After
<1>24. ASSUME NEW t \in Threads, Denied(t) PROVE LicenceTypes'
  BY <1>24 DEF Denied, ForgetLicence, Goto, files, polar, world
<1>25. ASSUME NEW t \in Threads, Deactivated(t) PROVE LicenceTypes'
  BY <1>25 DEF Deactivated, Goto, memory, world
<1>26. ASSUME NEW t \in Threads, Validated(t) PROVE LicenceTypes'
  <2>1. draft \in Licences /\ draft' = [draft EXCEPT !.age = "current", !.pending = 0]
    BY <1>26 DEF Validated, ThreadInv
  <2>2. draft' \in Licences /\ license' = license /\ saved' = saved
    BY <1>26, <2>1, Reported DEF Validated, memory, files
  <2>3. QED
    BY <2>2
<1>27. ASSUME NEW t \in Threads, NEW k \in Keys, Activated(t, k) PROVE LicenceTypes'
  <2>1. draft' \in Licences
    <3>1. activations + 1 \in 1..MaxActivations
      BY <1>27, BrokerAssumption DEF Activated, TypeOK
    <3>2. license # None => license.pending \in 0..MaxDevices
      BY DEF Licences
    <3>3. QED
      BY <1>27, <3>1, <3>2, BrokerAssumption DEF Activated, Licences
  <2>2. QED
    BY <1>27, <2>1 DEF Activated, memory, files
<1>28. ASSUME NEW t \in Threads, NEW ok \in BOOLEAN, DeleteFile(t, ok) PROVE LicenceTypes'
  BY <1>28 DEF DeleteFile, Finish, memory, polar, world, Goto, After
<1>29. ASSUME NEW t \in Threads, ResetAfterDelete(t) PROVE LicenceTypes'
  BY <1>29 DEF ResetAfterDelete, ForgetLicence, Finish, files, polar, world, Goto,
    After
<1>30. ASSUME NEW t \in Threads, OpenFile(t) PROVE LicenceTypes'
  BY <1>30 DEF OpenFile, Goto, memory, polar, world
<1>31. ASSUME NEW t \in Threads, SaveFails(t) PROVE LicenceTypes'
  BY <1>31 DEF SaveFails, Unavailable, Finish, files, polar, world, Goto, After,
    MarkUnavailable
<1>32. ASSUME NEW t \in Threads, WriteFile(t) PROVE LicenceTypes'
  BY <1>32 DEF WriteFile, Goto, memory, polar, world
<1>33. ASSUME NEW t \in Threads, CommitRecord(t) PROVE LicenceTypes'
  BY <1>33 DEF CommitRecord, Finish, memory, files, polar, world, Goto, After
<1>34. ASSUME NEW t \in Threads, Commit(t) PROVE LicenceTypes'
  BY <1>34 DEF Commit, Finish, files, world, Goto, After
<1>35. ASSUME NEW t \in Threads, Schedule(t) PROVE LicenceTypes'
  BY <1>35 DEF Schedule, Goto, files, polar, world
<1>36. ASSUME TimerFires PROVE LicenceTypes'
  BY <1>36 DEF TimerFires, thread, files, polar, world
<1>37. ASSUME HourPasses PROVE LicenceTypes'
  BY <1>37 DEF HourPasses, thread, files, polar, world
<1>38. ASSUME ValidationLapses PROVE LicenceTypes'
  <2>1. Lapse(None) = None
    BY DEF Lapse
  <2>2. license' \in Licences \cup {None} /\ saved' \in Licences \cup {None} /\ draft' = draft
    BY <1>38, <2>1, Aging DEF ValidationLapses, thread
  <2>3. QED
    BY <2>2
<1>39. ASSUME WindowCloses PROVE LicenceTypes'
  BY <1>39 DEF WindowCloses, memory, thread, polar, world
<1>40. ASSUME NEW a \in granted, PolarRevokes(a) PROVE LicenceTypes'
  BY <1>40 DEF PolarRevokes, memory, thread, files, world
<1>41. ASSUME NEW c \in alive, ClientDies(c) PROVE LicenceTypes'
  BY <1>41 DEF ClientDies, memory, thread, files, polar
<1>42. ASSUME BrokerDies PROVE LicenceTypes'
  <2>1. Aged(None, "unknown") = None
    BY DEF Aged
  <2>2. saved' \in Licences \cup {None} /\ license' = None /\ draft' = None
    BY <1>42, <2>1, Aging DEF BrokerDies, ProcessEnds
  <2>3. QED
    BY <2>2
<1>43. ASSUME WindowsRestarts PROVE LicenceTypes'
  <2>1. Aged(None, "unknown") = None
    BY DEF Aged
  <2>2. saved' \in Licences \cup {None} /\ license' = None /\ draft' = None
    BY <1>43, <2>1, Aging DEF WindowsRestarts, ProcessEnds
  <2>3. QED
    BY <2>2
<1>44. CASE UNCHANGED vars
  BY <1>44 DEF vars, memory, thread, files, polar, world
<1> HIDE DEF LicenceTypes
<1>45. QED
  BY <1>1, <1>2, <1>3, <1>4, <1>5, <1>6, <1>7, <1>8, <1>9, <1>10, <1>11, <1>12,
    <1>13, <1>14, <1>15, <1>16, <1>17, <1>18, <1>19, <1>20, <1>21, <1>22, <1>23,
    <1>24, <1>25, <1>26, <1>27, <1>28, <1>29, <1>30, <1>31, <1>32, <1>33, <1>34,
    <1>35, <1>36, <1>37, <1>38, <1>39, <1>40, <1>41, <1>42, <1>43, <1>44 DEF Next,
    Cleanup, Requests, Creation, LicenceStep, Environment

\* of devices,
LEMMA DeviceTypesNext ==
  ASSUME DeviceTypes, JobInv, [Next]_vars
  PROVE  DeviceTypes'
<1> USE DEF DeviceTypes
<1>1. ASSUME Start PROVE DeviceTypes'
  BY <1>1 DEF Start, files, world
<1>2. ASSUME NEW ok \in BOOLEAN, Construct(ok) PROVE DeviceTypes'
  BY <1>2 DEF Construct, ResetDevices, Goto, files, polar
<1>3. ASSUME NEW ok \in BOOLEAN, Reconcile(ok) PROVE DeviceTypes'
  BY <1>3 DEF Reconcile, ResetDevices, Goto, files, polar
<1>4. ASSUME CleanupSelect PROVE DeviceTypes'
  BY <1>4 DEF CleanupSelect, Condemned, Goto, files, polar, world
<1>5. ASSUME CleanupFinish PROVE DeviceTypes'
  BY <1>5 DEF CleanupFinish, Goto, files, polar, world
<1>6. ASSUME NEW d \in cleanup, CleanupDestroy(d) PROVE DeviceTypes'
  BY <1>6 DEF CleanupDestroy, Destroy, files, polar
<1>7. ASSUME NEW d \in cleanup, CleanupFails(d) PROVE DeviceTypes'
  BY <1>7 DEF CleanupFails, memory, files, polar, world
<1>8. ASSUME NoRequest PROVE DeviceTypes'
  BY <1>8 DEF NoRequest, Goto, memory, files, polar, world
<1>9. ASSUME NEW o \in {"validate", "activate", "deactivate"}, RequestLicense(o)
      PROVE  DeviceTypes'
  BY <1>9 DEF RequestLicense, Goto, memory, files, polar, world
<1>10. ASSUME NEW ok \in BOOLEAN, CreateReconcile(ok) PROVE DeviceTypes'
  BY <1>10 DEF CreateReconcile, ResetDevices, Goto, files, polar
<1>11. ASSUME NEW d \in devices, DestroyDevice(d) PROVE DeviceTypes'
  BY <1>11 DEF DestroyDevice, Destroy, Goto, files, polar
<1>12. ASSUME NEW c \in Clients, NEW k \in Kinds, Authorize(c, k) PROVE DeviceTypes'
  <2>1. made + 1 \in 1..MaxDevices
    BY <1>12, BrokerAssumption DEF Authorize, Creating
  <2>2. c \in Clients /\ job' = NewDevice(c, k, FALSE)
    BY <1>12 DEF Authorize, Creating
  <2>3. job' \in Devices
    BY <2>1, <2>2, BrokerAssumption DEF NewDevice, Devices
  <2>4. QED
    BY <1>12, <2>3 DEF Authorize, memory, world
<1>13. ASSUME NEW c \in Clients, NEW k \in Kinds, AuthorizeEvaluation(c, k)
      PROVE  DeviceTypes'
  <2>1. made + 1 \in 1..MaxDevices
    BY <1>13, BrokerAssumption DEF AuthorizeEvaluation, Creating
  <2>2. c \in Clients /\ job' = NewDevice(c, k, TRUE)
    BY <1>13 DEF AuthorizeEvaluation, Creating
  <2>3. job' \in Devices
    BY <2>1, <2>2, BrokerAssumption DEF NewDevice, Devices
  <2>4. QED
    BY <1>13, <2>3 DEF AuthorizeEvaluation, memory, world
<1>14. ASSUME CreateRefused PROVE DeviceTypes'
  BY <1>14 DEF CreateRefused, Goto, memory, files, polar, world
<1>15. ASSUME CreateInDriver PROVE DeviceTypes'
  <2>1. /\ job \in Devices /\ job.id = made + 1
        /\ made' = made + 1 /\ driver' \subseteq driver \cup {job}
    BY <1>15 DEF CreateInDriver, JobInv, Making
  <2>2. made' \in 0..MaxDevices
    BY <2>1 DEF Devices
  <2>3. QED
    BY <1>15, <2>1, <2>2 DEF CreateInDriver, memory
<1>16. ASSUME CreateFails PROVE DeviceTypes'
  BY <1>16 DEF CreateFails, Goto, memory, files, polar, world
<1>17. ASSUME Register PROVE DeviceTypes'
  BY <1>17 DEF Register, JobInv, Making, world
<1>18. ASSUME ValidationDue PROVE DeviceTypes'
  BY <1>18 DEF ValidationDue, Goto, files, polar, world
<1>19. ASSUME NEW t \in Threads, BeginWithoutLicence(t) PROVE DeviceTypes'
  BY <1>19 DEF BeginWithoutLicence, Finish, memory, files, polar, world, Goto, After
<1>20. ASSUME NEW t \in Threads, BeginCall(t) PROVE DeviceTypes'
  BY <1>20 DEF BeginCall, Goto, memory, files, polar, world
<1>21. ASSUME NEW t \in Threads, BeginRecord(t) PROVE DeviceTypes'
  BY <1>21 DEF BeginRecord, Goto, files, polar, world
<1>22. ASSUME NEW t \in Threads, CallFails(t) PROVE DeviceTypes'
  BY <1>22 DEF CallFails, Unavailable, Finish, files, world, Goto, After,
    MarkUnavailable
<1>23. ASSUME NEW t \in Threads, ActivationRefused(t) PROVE DeviceTypes'
  BY <1>23 DEF ActivationRefused, Finish, memory, files, polar, world, Goto, After
<1>24. ASSUME NEW t \in Threads, Denied(t) PROVE DeviceTypes'
  BY <1>24 DEF Denied, ForgetLicence, Goto, files, polar, world
<1>25. ASSUME NEW t \in Threads, Deactivated(t) PROVE DeviceTypes'
  BY <1>25 DEF Deactivated, Goto, memory, world
<1>26. ASSUME NEW t \in Threads, Validated(t) PROVE DeviceTypes'
  BY <1>26 DEF Validated, Goto, memory, files, world
<1>27. ASSUME NEW t \in Threads, NEW k \in Keys, Activated(t, k) PROVE DeviceTypes'
  BY <1>27 DEF Activated, Goto, memory, files, world
<1>28. ASSUME NEW t \in Threads, NEW ok \in BOOLEAN, DeleteFile(t, ok) PROVE DeviceTypes'
  BY <1>28 DEF DeleteFile, Finish, memory, polar, world, Goto, After
<1>29. ASSUME NEW t \in Threads, ResetAfterDelete(t) PROVE DeviceTypes'
  BY <1>29 DEF ResetAfterDelete, ForgetLicence, Finish, files, polar, world, Goto,
    After
<1>30. ASSUME NEW t \in Threads, OpenFile(t) PROVE DeviceTypes'
  BY <1>30 DEF OpenFile, Goto, memory, polar, world
<1>31. ASSUME NEW t \in Threads, SaveFails(t) PROVE DeviceTypes'
  BY <1>31 DEF SaveFails, Unavailable, Finish, files, polar, world, Goto, After,
    MarkUnavailable
<1>32. ASSUME NEW t \in Threads, WriteFile(t) PROVE DeviceTypes'
  BY <1>32 DEF WriteFile, Goto, memory, polar, world
<1>33. ASSUME NEW t \in Threads, CommitRecord(t) PROVE DeviceTypes'
  BY <1>33 DEF CommitRecord, Finish, memory, files, polar, world, Goto, After
<1>34. ASSUME NEW t \in Threads, Commit(t) PROVE DeviceTypes'
  BY <1>34 DEF Commit, Finish, files, world, Goto, After
<1>35. ASSUME NEW t \in Threads, Schedule(t) PROVE DeviceTypes'
  BY <1>35 DEF Schedule, Goto, files, polar, world
<1>36. ASSUME TimerFires PROVE DeviceTypes'
  BY <1>36 DEF TimerFires, thread, files, polar, world
<1>37. ASSUME HourPasses PROVE DeviceTypes'
  BY <1>37 DEF HourPasses, thread, files, polar, world
<1>38. ASSUME ValidationLapses PROVE DeviceTypes'
  BY <1>38 DEF ValidationLapses, thread, polar, world
<1>39. ASSUME WindowCloses PROVE DeviceTypes'
  BY <1>39 DEF WindowCloses, memory, thread, polar, world
<1>40. ASSUME NEW a \in granted, PolarRevokes(a) PROVE DeviceTypes'
  BY <1>40 DEF PolarRevokes, memory, thread, files, world
<1>41. ASSUME NEW c \in alive, ClientDies(c) PROVE DeviceTypes'
  BY <1>41 DEF ClientDies, memory, thread, files, polar
<1>42. ASSUME BrokerDies PROVE DeviceTypes'
  BY <1>42 DEF BrokerDies, ProcessEnds, files, polar
<1>43. ASSUME WindowsRestarts PROVE DeviceTypes'
  BY <1>43 DEF WindowsRestarts, ProcessEnds, polar
<1>44. CASE UNCHANGED vars
  BY <1>44 DEF vars, memory, thread, files, polar, world
<1> HIDE DEF DeviceTypes
<1>45. QED
  BY <1>1, <1>2, <1>3, <1>4, <1>5, <1>6, <1>7, <1>8, <1>9, <1>10, <1>11, <1>12,
    <1>13, <1>14, <1>15, <1>16, <1>17, <1>18, <1>19, <1>20, <1>21, <1>22, <1>23,
    <1>24, <1>25, <1>26, <1>27, <1>28, <1>29, <1>30, <1>31, <1>32, <1>33, <1>34,
    <1>35, <1>36, <1>37, <1>38, <1>39, <1>40, <1>41, <1>42, <1>43, <1>44 DEF Next,
    Cleanup, Requests, Creation, LicenceStep, Environment

\* and of what Polar knows.
LEMMA UsageTypesNext ==
  ASSUME TypeOK, ThreadInv, CountInv, UsageTypes, [Next]_vars
  PROVE  UsageTypes'
<1> USE DEF UsageTypes
<1>1. ASSUME Start PROVE UsageTypes'
  <2>1. recorded' \in 0..MaxDevices
    <3>1. license' \in Licences \cup {None} /\ recorded' = IF license' = None THEN 0 ELSE license'.pending
      BY <1>1 DEF Start, TypeOK
    <3>2. QED
      BY <3>1, BrokerAssumption, LicenceFields
  <2>2. QED
    BY <1>1, <2>1, BrokerAssumption DEF Start
<1>2. ASSUME NEW ok \in BOOLEAN, Construct(ok) PROVE UsageTypes'
  BY <1>2 DEF Construct, ResetDevices, Goto, files, polar
<1>3. ASSUME NEW ok \in BOOLEAN, Reconcile(ok) PROVE UsageTypes'
  BY <1>3 DEF Reconcile, ResetDevices, Goto, files, polar
<1>4. ASSUME CleanupSelect PROVE UsageTypes'
  BY <1>4 DEF CleanupSelect, Goto, files, polar, world
<1>5. ASSUME CleanupFinish PROVE UsageTypes'
  BY <1>5 DEF CleanupFinish, Goto, files, polar, world
<1>6. ASSUME NEW d \in cleanup, CleanupDestroy(d) PROVE UsageTypes'
  BY <1>6 DEF CleanupDestroy, Destroy, files, polar
<1>7. ASSUME NEW d \in cleanup, CleanupFails(d) PROVE UsageTypes'
  BY <1>7 DEF CleanupFails, memory, files, polar, world
<1>8. ASSUME NoRequest PROVE UsageTypes'
  BY <1>8 DEF NoRequest, Goto, memory, files, polar, world
<1>9. ASSUME NEW o \in {"validate", "activate", "deactivate"}, RequestLicense(o)
      PROVE  UsageTypes'
  BY <1>9 DEF RequestLicense, Goto, memory, files, polar, world
<1>10. ASSUME NEW ok \in BOOLEAN, CreateReconcile(ok) PROVE UsageTypes'
  BY <1>10 DEF CreateReconcile, ResetDevices, Goto, files, polar
<1>11. ASSUME NEW d \in devices, DestroyDevice(d) PROVE UsageTypes'
  BY <1>11 DEF DestroyDevice, Destroy, Goto, files, polar
<1>12. ASSUME NEW c \in Clients, NEW k \in Kinds, Authorize(c, k) PROVE UsageTypes'
  BY <1>12 DEF Authorize, Creating, NewDevice, Goto, memory, files, polar, world
<1>13. ASSUME NEW c \in Clients, NEW k \in Kinds, AuthorizeEvaluation(c, k)
      PROVE  UsageTypes'
  BY <1>13 DEF AuthorizeEvaluation, Creating, NewDevice, Goto, memory, polar, world
<1>14. ASSUME CreateRefused PROVE UsageTypes'
  BY <1>14 DEF CreateRefused, Goto, memory, files, polar, world
<1>15. ASSUME CreateInDriver PROVE UsageTypes'
  BY <1>15 DEF CreateInDriver, Goto, memory, files, polar
<1>16. ASSUME CreateFails PROVE UsageTypes'
  BY <1>16 DEF CreateFails, Goto, memory, files, polar, world
<1>17. ASSUME Register PROVE UsageTypes'
  BY <1>17 DEF Register, Goto, files, polar, world
<1>18. ASSUME ValidationDue PROVE UsageTypes'
  BY <1>18 DEF ValidationDue, Goto, files, polar, world
<1>19. ASSUME NEW t \in Threads, BeginWithoutLicence(t) PROVE UsageTypes'
  BY <1>19 DEF BeginWithoutLicence, Finish, memory, files, polar, world, Goto, After
<1>20. ASSUME NEW t \in Threads, BeginCall(t) PROVE UsageTypes'
  BY <1>20 DEF BeginCall, Goto, memory, files, polar, world
<1>21. ASSUME NEW t \in Threads, BeginRecord(t) PROVE UsageTypes'
  <2>1. recorded < made /\ made \in 0..MaxDevices
    BY <1>21, RecordFits DEF TypeOK
  <2>2. recorded' = recorded + 1
    BY <1>21 DEF BeginRecord
  <2>3. QED
    BY <1>21, <2>1, <2>2, BrokerAssumption DEF BeginRecord, polar
<1>22. ASSUME NEW t \in Threads, CallFails(t) PROVE UsageTypes'
  <2>1. op[t] = "validate" => draft \in Licences
    BY <1>22 DEF CallFails, ThreadInv
  <2>2. counted' \in 0..MaxDevices
    BY <1>22, <2>1, BrokerAssumption, LicenceFields DEF CallFails, AtMost
  <2>3. granted' \subseteq granted /\ UNCHANGED <<activations, recorded>>
    BY <1>22 DEF CallFails
  <2>4. QED
    BY <2>2, <2>3
<1>23. ASSUME NEW t \in Threads, ActivationRefused(t) PROVE UsageTypes'
  BY <1>23 DEF ActivationRefused, Finish, memory, files, polar, world, Goto, After
<1>24. ASSUME NEW t \in Threads, Denied(t) PROVE UsageTypes'
  BY <1>24 DEF Denied, ForgetLicence, Goto, files, polar, world
<1>25. ASSUME NEW t \in Threads, Deactivated(t) PROVE UsageTypes'
  BY <1>25 DEF Deactivated, Goto, memory, world
<1>26. ASSUME NEW t \in Threads, Validated(t) PROVE UsageTypes'
  <2>1. draft \in Licences
    BY <1>26 DEF Validated, ThreadInv
  <2>2. counted' \in 0..MaxDevices
    BY <1>26, <2>1, BrokerAssumption, LicenceFields DEF Validated, AtMost
  <2>3. QED
    BY <1>26, <2>2 DEF Validated
<1>27. ASSUME NEW t \in Threads, NEW k \in Keys, Activated(t, k) PROVE UsageTypes'
  <2>1. activations' = activations + 1 /\ activations < MaxActivations
    BY <1>27, BrokerAssumption DEF Activated
  <2>2. activations' \in 1..MaxActivations /\ granted' = granted \cup {activations'}
    BY <1>27, <2>1, BrokerAssumption DEF Activated
  <2>3. QED
    BY <1>27, <2>2 DEF Activated
<1>28. ASSUME NEW t \in Threads, NEW ok \in BOOLEAN, DeleteFile(t, ok) PROVE UsageTypes'
  BY <1>28 DEF DeleteFile, Finish, memory, polar, world, Goto, After
<1>29. ASSUME NEW t \in Threads, ResetAfterDelete(t) PROVE UsageTypes'
  BY <1>29 DEF ResetAfterDelete, ForgetLicence, Finish, files, polar, world, Goto,
    After
<1>30. ASSUME NEW t \in Threads, OpenFile(t) PROVE UsageTypes'
  BY <1>30 DEF OpenFile, Goto, memory, polar, world
<1>31. ASSUME NEW t \in Threads, SaveFails(t) PROVE UsageTypes'
  BY <1>31 DEF SaveFails, Unavailable, Finish, files, polar, world, Goto, After,
    MarkUnavailable
<1>32. ASSUME NEW t \in Threads, WriteFile(t) PROVE UsageTypes'
  BY <1>32 DEF WriteFile, Goto, memory, polar, world
<1>33. ASSUME NEW t \in Threads, CommitRecord(t) PROVE UsageTypes'
  BY <1>33 DEF CommitRecord, Finish, memory, files, polar, world, Goto, After
<1>34. ASSUME NEW t \in Threads, Commit(t) PROVE UsageTypes'
  <2>1. draft \in Licences
    BY <1>34 DEF Commit, ThreadInv, Saving
  <2>2. recorded' \in {recorded, draft.pending} /\ counted' \in {counted, 0}
    BY <1>34 DEF Commit
  <2>3. QED
    BY <1>34, <2>1, <2>2, BrokerAssumption, LicenceFields DEF Commit
<1>35. ASSUME NEW t \in Threads, Schedule(t) PROVE UsageTypes'
  BY <1>35 DEF Schedule, Goto, files, polar, world
<1>36. ASSUME TimerFires PROVE UsageTypes'
  BY <1>36 DEF TimerFires, thread, files, polar, world
<1>37. ASSUME HourPasses PROVE UsageTypes'
  BY <1>37 DEF HourPasses, thread, files, polar, world
<1>38. ASSUME ValidationLapses PROVE UsageTypes'
  BY <1>38 DEF ValidationLapses, thread, polar, world
<1>39. ASSUME WindowCloses PROVE UsageTypes'
  BY <1>39 DEF WindowCloses, memory, thread, polar, world
<1>40. ASSUME NEW a \in granted, PolarRevokes(a) PROVE UsageTypes'
  BY <1>40 DEF PolarRevokes, memory, thread, files, world
<1>41. ASSUME NEW c \in alive, ClientDies(c) PROVE UsageTypes'
  BY <1>41 DEF ClientDies, memory, thread, files, polar
<1>42. ASSUME BrokerDies PROVE UsageTypes'
  BY <1>42 DEF BrokerDies, ProcessEnds, files, polar
<1>43. ASSUME WindowsRestarts PROVE UsageTypes'
  BY <1>43 DEF WindowsRestarts, ProcessEnds, polar
<1>44. CASE UNCHANGED vars
  BY <1>44 DEF vars, memory, thread, files, polar, world
<1> HIDE DEF UsageTypes
<1>45. QED
  BY <1>1, <1>2, <1>3, <1>4, <1>5, <1>6, <1>7, <1>8, <1>9, <1>10, <1>11, <1>12,
    <1>13, <1>14, <1>15, <1>16, <1>17, <1>18, <1>19, <1>20, <1>21, <1>22, <1>23,
    <1>24, <1>25, <1>26, <1>27, <1>28, <1>29, <1>30, <1>31, <1>32, <1>33, <1>34,
    <1>35, <1>36, <1>37, <1>38, <1>39, <1>40, <1>41, <1>42, <1>43, <1>44 DEF Next,
    Cleanup, Requests, Creation, LicenceStep, Environment

\* The next device stays the next.
LEMMA JobInvNext ==
  ASSUME TypeOK, JobInv, [Next]_vars
  PROVE  JobInv'
<1> USE DEF TypeOK, JobInv, Threads, Making
<1>1. ASSUME Start PROVE JobInv'
  BY <1>1 DEF Start, files, world
<1>2. ASSUME NEW ok \in BOOLEAN, Construct(ok) PROVE JobInv'
  BY <1>2 DEF Construct, ResetDevices, Goto, files, polar
<1>3. ASSUME NEW ok \in BOOLEAN, Reconcile(ok) PROVE JobInv'
  BY <1>3 DEF Reconcile, ResetDevices, Goto, files, polar
<1>4. ASSUME CleanupSelect PROVE JobInv'
  BY <1>4 DEF CleanupSelect, Goto, files, polar, world
<1>5. ASSUME CleanupFinish PROVE JobInv'
  BY <1>5 DEF CleanupFinish, Goto, files, polar, world
<1>6. ASSUME NEW d \in cleanup, CleanupDestroy(d) PROVE JobInv'
  BY <1>6 DEF CleanupDestroy, Destroy, files, polar
<1>7. ASSUME NEW d \in cleanup, CleanupFails(d) PROVE JobInv'
  BY <1>7 DEF CleanupFails, memory, files, polar, world
<1>8. ASSUME NoRequest PROVE JobInv'
  BY <1>8 DEF NoRequest, Goto, memory, files, polar, world
<1>9. ASSUME NEW o \in {"validate", "activate", "deactivate"}, RequestLicense(o)
      PROVE  JobInv'
  BY <1>9 DEF RequestLicense, Goto, memory, files, polar, world
<1>10. ASSUME NEW ok \in BOOLEAN, CreateReconcile(ok) PROVE JobInv'
  BY <1>10 DEF CreateReconcile, ResetDevices, Goto, files, polar
<1>11. ASSUME NEW d \in devices, DestroyDevice(d) PROVE JobInv'
  BY <1>11 DEF DestroyDevice, Destroy, Goto, files, polar
<1>12. ASSUME NEW c \in Clients, NEW k \in Kinds, Authorize(c, k) PROVE JobInv'
  <2>1. job' = NewDevice(c, k, FALSE) /\ made' = made /\ made + 1 \in 1..MaxDevices /\ c \in Clients
    BY <1>12, BrokerAssumption DEF Authorize, Creating, world
  <2>2. job' \in Devices /\ job'.id = made' + 1
    BY <2>1, BrokerAssumption DEF NewDevice, Devices
  <2>3. QED
    BY <2>2
<1>13. ASSUME NEW c \in Clients, NEW k \in Kinds, AuthorizeEvaluation(c, k) PROVE JobInv'
  <2>1. job' = NewDevice(c, k, TRUE) /\ made' = made /\ made + 1 \in 1..MaxDevices /\ c \in Clients
    BY <1>13, BrokerAssumption DEF AuthorizeEvaluation, Creating, world
  <2>2. job' \in Devices /\ job'.id = made' + 1
    BY <2>1, BrokerAssumption DEF NewDevice, Devices
  <2>3. QED
    BY <2>2
<1>14. ASSUME CreateRefused PROVE JobInv'
  BY <1>14 DEF CreateRefused, Goto, memory, files, polar, world
<1>15. ASSUME CreateInDriver PROVE JobInv'
  BY <1>15 DEF CreateInDriver, Goto, memory, files, polar
<1>16. ASSUME CreateFails PROVE JobInv'
  BY <1>16 DEF CreateFails, Goto, memory, files, polar, world
<1>17. ASSUME Register PROVE JobInv'
  BY <1>17 DEF Register, Goto, files, polar, world
<1>18. ASSUME ValidationDue PROVE JobInv'
  BY <1>18 DEF ValidationDue, Goto, files, polar, world
<1>19. ASSUME NEW t \in Threads, BeginWithoutLicence(t) PROVE JobInv'
  BY <1>19 DEF BeginWithoutLicence, Finish, memory, files, polar, world, Goto, After
<1>20. ASSUME NEW t \in Threads, BeginCall(t) PROVE JobInv'
  BY <1>20 DEF BeginCall, Goto, memory, files, polar, world
<1>21. ASSUME NEW t \in Threads, BeginRecord(t) PROVE JobInv'
  BY <1>21 DEF BeginRecord, Goto, files, polar, world
<1>22. ASSUME NEW t \in Threads, CallFails(t) PROVE JobInv'
  BY <1>22 DEF CallFails, Unavailable, Finish, files, world, Goto, After,
    MarkUnavailable
<1>23. ASSUME NEW t \in Threads, ActivationRefused(t) PROVE JobInv'
  BY <1>23 DEF ActivationRefused, Finish, memory, files, polar, world, Goto, After
<1>24. ASSUME NEW t \in Threads, Denied(t) PROVE JobInv'
  BY <1>24 DEF Denied, ForgetLicence, Goto, files, polar, world
<1>25. ASSUME NEW t \in Threads, Deactivated(t) PROVE JobInv'
  BY <1>25 DEF Deactivated, Goto, memory, world
<1>26. ASSUME NEW t \in Threads, Validated(t) PROVE JobInv'
  BY <1>26 DEF Validated, Goto, memory, files, world
<1>27. ASSUME NEW t \in Threads, NEW k \in Keys, Activated(t, k) PROVE JobInv'
  BY <1>27 DEF Activated, Goto, memory, files, world
<1>28. ASSUME NEW t \in Threads, NEW ok \in BOOLEAN, DeleteFile(t, ok) PROVE JobInv'
  BY <1>28 DEF DeleteFile, Finish, memory, polar, world, Goto, After
<1>29. ASSUME NEW t \in Threads, ResetAfterDelete(t) PROVE JobInv'
  BY <1>29 DEF ResetAfterDelete, ForgetLicence, Finish, files, polar, world, Goto,
    After
<1>30. ASSUME NEW t \in Threads, OpenFile(t) PROVE JobInv'
  BY <1>30 DEF OpenFile, Goto, memory, polar, world
<1>31. ASSUME NEW t \in Threads, SaveFails(t) PROVE JobInv'
  BY <1>31 DEF SaveFails, Unavailable, Finish, files, polar, world, Goto, After,
    MarkUnavailable
<1>32. ASSUME NEW t \in Threads, WriteFile(t) PROVE JobInv'
  BY <1>32 DEF WriteFile, Goto, memory, polar, world
<1>33. ASSUME NEW t \in Threads, CommitRecord(t) PROVE JobInv'
  BY <1>33 DEF CommitRecord, Finish, memory, files, polar, world, Goto, After
<1>34. ASSUME NEW t \in Threads, Commit(t) PROVE JobInv'
  BY <1>34 DEF Commit, Finish, files, world, Goto, After
<1>35. ASSUME NEW t \in Threads, Schedule(t) PROVE JobInv'
  BY <1>35 DEF Schedule, Goto, files, polar, world
<1>36. ASSUME TimerFires PROVE JobInv'
  BY <1>36 DEF TimerFires, thread, files, polar, world
<1>37. ASSUME HourPasses PROVE JobInv'
  BY <1>37 DEF HourPasses, thread, files, polar, world
<1>38. ASSUME ValidationLapses PROVE JobInv'
  BY <1>38 DEF ValidationLapses, thread, polar, world
<1>39. ASSUME WindowCloses PROVE JobInv'
  BY <1>39 DEF WindowCloses, memory, thread, polar, world
<1>40. ASSUME NEW a \in granted, PolarRevokes(a) PROVE JobInv'
  BY <1>40 DEF PolarRevokes, memory, thread, files, world
<1>41. ASSUME NEW c \in alive, ClientDies(c) PROVE JobInv'
  BY <1>41 DEF ClientDies, memory, thread, files, polar
<1>42. ASSUME BrokerDies PROVE JobInv'
  BY <1>42 DEF BrokerDies, ProcessEnds, files, polar
<1>43. ASSUME WindowsRestarts PROVE JobInv'
  BY <1>43 DEF WindowsRestarts, ProcessEnds, polar
<1>44. CASE UNCHANGED vars
  BY <1>44 DEF vars, memory, thread, files, polar, world
<1> HIDE DEF JobInv
<1>45. QED
  BY <1>1, <1>2, <1>3, <1>4, <1>5, <1>6, <1>7, <1>8, <1>9, <1>10, <1>11, <1>12,
    <1>13, <1>14, <1>15, <1>16, <1>17, <1>18, <1>19, <1>20, <1>21, <1>22, <1>23,
    <1>24, <1>25, <1>26, <1>27, <1>28, <1>29, <1>30, <1>31, <1>32, <1>33, <1>34,
    <1>35, <1>36, <1>37, <1>38, <1>39, <1>40, <1>41, <1>42, <1>43, <1>44 DEF Next,
    Cleanup, Requests, Creation, LicenceStep, Environment

\* The device that is made stays covered.
LEMMA JobCoveredNext ==
  ASSUME TypeOK, ThreadInv, DraftInv, JobCovered, [Next]_vars
  PROVE  JobCovered'
<1> USE DEF TypeOK, ThreadInv, JobCovered, Threads, Making, Saving, Holding
<1>1. ASSUME Start PROVE JobCovered'
  BY <1>1 DEF Start, files, world
<1>2. ASSUME NEW ok \in BOOLEAN, Construct(ok) PROVE JobCovered'
  BY <1>2 DEF Construct, ResetDevices, Goto, files, polar
<1>3. ASSUME NEW ok \in BOOLEAN, Reconcile(ok) PROVE JobCovered'
  BY <1>3 DEF Reconcile, ResetDevices, Goto, files, polar
<1>4. ASSUME CleanupSelect PROVE JobCovered'
  BY <1>4 DEF CleanupSelect, Goto, files, polar, world
<1>5. ASSUME CleanupFinish PROVE JobCovered'
  BY <1>5 DEF CleanupFinish, Goto, files, polar, world
<1>6. ASSUME NEW d \in cleanup, CleanupDestroy(d) PROVE JobCovered'
  BY <1>6 DEF CleanupDestroy, Destroy, files, polar
<1>7. ASSUME NEW d \in cleanup, CleanupFails(d) PROVE JobCovered'
  BY <1>7 DEF CleanupFails, memory, files, polar, world
<1>8. ASSUME NoRequest PROVE JobCovered'
  BY <1>8 DEF NoRequest, Goto, memory, files, polar, world
<1>9. ASSUME NEW o \in {"validate", "activate", "deactivate"}, RequestLicense(o)
      PROVE  JobCovered'
  BY <1>9 DEF RequestLicense, Goto, memory, files, polar, world
<1>10. ASSUME NEW ok \in BOOLEAN, CreateReconcile(ok) PROVE JobCovered'
  BY <1>10 DEF CreateReconcile, ResetDevices, Goto, files, polar
<1>11. ASSUME NEW d \in devices, DestroyDevice(d) PROVE JobCovered'
  BY <1>11 DEF DestroyDevice, Destroy, Goto, files, polar
<1>12. ASSUME NEW c \in Clients, NEW k \in Kinds, Authorize(c, k) PROVE JobCovered'
  <2>1. license # None /\ (license.key \in Yearly => license.age = "current")
    BY <1>12 DEF Authorize, Authorized
  <2>2. QED
    BY <1>12, <2>1 DEF Authorize, memory
<1>13. ASSUME NEW c \in Clients, NEW k \in Kinds, AuthorizeEvaluation(c, k)
      PROVE  JobCovered'
  BY <1>13 DEF AuthorizeEvaluation, Creating, NewDevice, Goto, memory, polar, world
<1>14. ASSUME CreateRefused PROVE JobCovered'
  BY <1>14 DEF CreateRefused, Goto, memory, files, polar, world
<1>15. ASSUME CreateInDriver PROVE JobCovered'
  BY <1>15 DEF CreateInDriver, Goto, memory, files, polar
<1>16. ASSUME CreateFails PROVE JobCovered'
  BY <1>16 DEF CreateFails, Goto, memory, files, polar, world
<1>17. ASSUME Register PROVE JobCovered'
  BY <1>17 DEF Register, Goto, files, polar, world
<1>18. ASSUME ValidationDue PROVE JobCovered'
  BY <1>18 DEF ValidationDue, Goto, files, polar, world
<1>19. ASSUME NEW t \in Threads, BeginWithoutLicence(t) PROVE JobCovered'
  BY <1>19 DEF BeginWithoutLicence, Finish, memory, files, polar, world, Goto, After
<1>20. ASSUME NEW t \in Threads, BeginCall(t) PROVE JobCovered'
  BY <1>20 DEF BeginCall, Goto, memory, files, polar, world
<1>21. ASSUME NEW t \in Threads, BeginRecord(t) PROVE JobCovered'
  BY <1>21 DEF BeginRecord, Goto, files, polar, world
<1>22. ASSUME NEW t \in Threads, CallFails(t) PROVE JobCovered'
  BY <1>22 DEF CallFails, Unavailable, Finish, files, world, Goto, After,
    MarkUnavailable
<1>23. ASSUME NEW t \in Threads, ActivationRefused(t) PROVE JobCovered'
  BY <1>23 DEF ActivationRefused, Finish, memory, files, polar, world, Goto, After
<1>24. ASSUME NEW t \in Threads, Denied(t) PROVE JobCovered'
  BY <1>24 DEF Denied, ForgetLicence, Goto, files, polar, world
<1>25. ASSUME NEW t \in Threads, Deactivated(t) PROVE JobCovered'
  BY <1>25 DEF Deactivated, Goto, memory, world
<1>26. ASSUME NEW t \in Threads, Validated(t) PROVE JobCovered'
  BY <1>26 DEF Validated, Goto, memory, files, world
<1>27. ASSUME NEW t \in Threads, NEW k \in Keys, Activated(t, k) PROVE JobCovered'
  BY <1>27 DEF Activated, Goto, memory, files, world
<1>28. ASSUME NEW t \in Threads, NEW ok \in BOOLEAN, DeleteFile(t, ok) PROVE JobCovered'
  BY <1>28 DEF DeleteFile, Finish, memory, polar, world, Goto, After
<1>29. ASSUME NEW t \in Threads, ResetAfterDelete(t) PROVE JobCovered'
  BY <1>29 DEF ResetAfterDelete, ForgetLicence, Finish, files, polar, world, Goto,
    After
<1>30. ASSUME NEW t \in Threads, OpenFile(t) PROVE JobCovered'
  BY <1>30 DEF OpenFile, Goto, memory, polar, world
<1>31. ASSUME NEW t \in Threads, SaveFails(t) PROVE JobCovered'
  BY <1>31 DEF SaveFails, Unavailable, Finish, files, polar, world, Goto, After,
    MarkUnavailable
<1>32. ASSUME NEW t \in Threads, WriteFile(t) PROVE JobCovered'
  BY <1>32 DEF WriteFile, Goto, memory, polar, world
<1>33. ASSUME NEW t \in Threads, CommitRecord(t) PROVE JobCovered'
  BY <1>33 DEF CommitRecord, Finish, memory, files, polar, world, Goto, After
<1>34. ASSUME NEW t \in Threads, Commit(t) PROVE JobCovered'
  <2>1. license' = draft /\ draft \in Licences /\ draft.age = "current" /\ draft # None
    BY <1>34, LicenceFields DEF Commit, DraftInv
  <2>2. UNCHANGED <<revoke, job>> /\ pc'["service"] \in Making => pc["service"] \in Making
    BY <1>34 DEF Commit, Finish, Goto, After
  <2>3. QED
    BY <2>1, <2>2
<1>35. ASSUME NEW t \in Threads, Schedule(t) PROVE JobCovered'
  BY <1>35 DEF Schedule, Goto, files, polar, world
<1>36. ASSUME TimerFires PROVE JobCovered'
  BY <1>36 DEF TimerFires, thread, files, polar, world
<1>37. ASSUME HourPasses PROVE JobCovered'
  BY <1>37 DEF HourPasses, thread, files, polar, world
<1>38. ASSUME ValidationLapses PROVE JobCovered'
  <2>1. license' # None <=> license # None
    BY <1>38, LicenceFields, Aging DEF ValidationLapses, Lapse
  <2>2. license # None => license'.key = license.key /\ license'.age \in {license.age, "lapsed"}
    BY <1>38, Aging DEF ValidationLapses
  <2>3. UNCHANGED <<revoke, pc, job>>
    BY <1>38 DEF ValidationLapses, thread
  <2>4. QED
    BY <2>1, <2>2, <2>3
<1>39. ASSUME WindowCloses PROVE JobCovered'
  BY <1>39 DEF WindowCloses, memory, thread, polar, world
<1>40. ASSUME NEW a \in granted, PolarRevokes(a) PROVE JobCovered'
  BY <1>40 DEF PolarRevokes, memory, thread, files, world
<1>41. ASSUME NEW c \in alive, ClientDies(c) PROVE JobCovered'
  BY <1>41 DEF ClientDies, memory, thread, files, polar
<1>42. ASSUME BrokerDies PROVE JobCovered'
  BY <1>42 DEF BrokerDies, ProcessEnds, files, polar
<1>43. ASSUME WindowsRestarts PROVE JobCovered'
  BY <1>43 DEF WindowsRestarts, ProcessEnds, polar
<1>44. CASE UNCHANGED vars
  BY <1>44 DEF vars, memory, thread, files, polar, world
<1> HIDE DEF JobCovered
<1>45. QED
  BY <1>1, <1>2, <1>3, <1>4, <1>5, <1>6, <1>7, <1>8, <1>9, <1>10, <1>11, <1>12,
    <1>13, <1>14, <1>15, <1>16, <1>17, <1>18, <1>19, <1>20, <1>21, <1>22, <1>23,
    <1>24, <1>25, <1>26, <1>27, <1>28, <1>29, <1>30, <1>31, <1>32, <1>33, <1>34,
    <1>35, <1>36, <1>37, <1>38, <1>39, <1>40, <1>41, <1>42, <1>43, <1>44 DEF Next,
    Cleanup, Requests, Creation, LicenceStep, Environment

LEMMA CountTypes ==
  ASSUME TypeOK
  PROVE  /\ pc \in [Threads -> Labels] /\ op \in [Threads -> Operations]
         /\ made \in Nat /\ recorded \in Nat /\ Uncounted \in {0, 1}
         /\ license \in Licences \cup {None} /\ draft \in Licences \cup {None}
         /\ saved \in Licences \cup {None}
BY BrokerAssumption DEF TypeOK, Uncounted

\* What was not too much is not, when only what is uncounted may have been counted.
LEMMA CountKept ==
  ASSUME TypeOK, CountInv, made' = made, Uncounted' \in {0, Uncounted}, recorded' = recorded,
         \A l \in {license', draft', saved'} : l \in Licences =>
           \E m \in {license, draft, saved} : m \in Licences /\ m.pending = l.pending
  PROVE  CountInv'
<1>1. \A n \in Nat : n + Uncounted <= made => n + Uncounted' <= made'
  BY CountTypes
<1>2. \A l \in Licences : l.pending \in Nat
  BY LicenceFields
<1>3. recorded' + Uncounted' <= made'
  BY <1>1, CountTypes DEF CountInv
<1>4. ASSUME NEW l \in {license', draft', saved'}, l \in Licences
      PROVE  l.pending + Uncounted' <= made'
  BY <1>1, <1>2, <1>4 DEF CountInv
<1>5. QED
  BY <1>3, <1>4 DEF CountInv

\* No usage is made up.
LEMMA CountInvNext ==
  ASSUME TypeOK, ThreadInv, CountInv, [Next]_vars
  PROVE  CountInv'
<1>1. ASSUME Start PROVE CountInv'
  <2>1. Uncounted' = 0 /\ made' = made
    BY <1>1 DEF Start, Uncounted, Threads, world
  <2>2. /\ license' \in {saved, None} /\ draft' = None /\ saved' = saved
        /\ recorded' = IF license' = None THEN 0 ELSE license'.pending
    BY <1>1 DEF Start, files
  <2>3. saved \in Licences => saved.pending \in Nat /\ saved.pending <= made
    BY LicenceFields, CountTypes DEF CountInv
  <2>4. recorded' \in Nat /\ recorded' <= made
    BY <2>2, <2>3, CountTypes
  <2>5. QED
    BY <2>1, <2>2, <2>3, <2>4, NoneIsNoLicence DEF CountInv
<1>2. ASSUME NEW ok \in BOOLEAN, Construct(ok) PROVE CountInv'
  <2>1. Uncounted' \in {0, Uncounted}
    BY <1>2, CountTypes DEF Construct, ResetDevices, Goto, files, polar, Threads,
      Uncounted
  <2>2. /\ {license', draft', saved'} \subseteq {license, draft, saved, None}
        /\ UNCHANGED <<recorded, made>>
    BY <1>2 DEF Construct, ResetDevices, Goto, files, polar
  <2>3. QED
    BY <2>1, <2>2, NoneIsNoLicence, CountKept
<1>3. ASSUME NEW ok \in BOOLEAN, Reconcile(ok) PROVE CountInv'
  <2>1. Uncounted' \in {0, Uncounted}
    BY <1>3, CountTypes DEF Reconcile, ResetDevices, Goto, files, polar, Threads,
      Uncounted
  <2>2. /\ {license', draft', saved'} \subseteq {license, draft, saved, None}
        /\ UNCHANGED <<recorded, made>>
    BY <1>3 DEF Reconcile, ResetDevices, Goto, files, polar
  <2>3. QED
    BY <2>1, <2>2, NoneIsNoLicence, CountKept
<1>4. ASSUME CleanupSelect PROVE CountInv'
  <2>1. Uncounted' \in {0, Uncounted}
    BY <1>4, CountTypes DEF CleanupSelect, Goto, files, polar, world, Threads,
      Uncounted
  <2>2. /\ {license', draft', saved'} \subseteq {license, draft, saved, None}
        /\ UNCHANGED <<recorded, made>>
    BY <1>4 DEF CleanupSelect, Goto, files, polar, world
  <2>3. QED
    BY <2>1, <2>2, NoneIsNoLicence, CountKept
<1>5. ASSUME CleanupFinish PROVE CountInv'
  <2>1. Uncounted' \in {0, Uncounted}
    BY <1>5, CountTypes DEF CleanupFinish, Goto, files, polar, world, Threads,
      Uncounted
  <2>2. /\ {license', draft', saved'} \subseteq {license, draft, saved, None}
        /\ UNCHANGED <<recorded, made>>
    BY <1>5 DEF CleanupFinish, Goto, files, polar, world
  <2>3. QED
    BY <2>1, <2>2, NoneIsNoLicence, CountKept
<1>6. ASSUME NEW d \in cleanup, CleanupDestroy(d) PROVE CountInv'
  <2>1. Uncounted' \in {0, Uncounted}
    BY <1>6, CountTypes DEF CleanupDestroy, Destroy, files, polar, Threads, Uncounted
  <2>2. /\ {license', draft', saved'} \subseteq {license, draft, saved, None}
        /\ UNCHANGED <<recorded, made>>
    BY <1>6 DEF CleanupDestroy, Destroy, files, polar
  <2>3. QED
    BY <2>1, <2>2, NoneIsNoLicence, CountKept
<1>7. ASSUME NEW d \in cleanup, CleanupFails(d) PROVE CountInv'
  <2>1. Uncounted' \in {0, Uncounted}
    BY <1>7, CountTypes DEF CleanupFails, memory, files, polar, world, Threads,
      Uncounted
  <2>2. /\ {license', draft', saved'} \subseteq {license, draft, saved, None}
        /\ UNCHANGED <<recorded, made>>
    BY <1>7 DEF CleanupFails, memory, files, polar, world
  <2>3. QED
    BY <2>1, <2>2, NoneIsNoLicence, CountKept
<1>8. ASSUME NoRequest PROVE CountInv'
  <2>1. Uncounted' \in {0, Uncounted}
    BY <1>8, CountTypes DEF NoRequest, Goto, memory, files, polar, world, Threads,
      Uncounted
  <2>2. /\ {license', draft', saved'} \subseteq {license, draft, saved, None}
        /\ UNCHANGED <<recorded, made>>
    BY <1>8 DEF NoRequest, Goto, memory, files, polar, world
  <2>3. QED
    BY <2>1, <2>2, NoneIsNoLicence, CountKept
<1>9. ASSUME NEW o \in {"validate", "activate", "deactivate"}, RequestLicense(o)
      PROVE  CountInv'
  <2>1. Uncounted' \in {0, Uncounted}
    BY <1>9, CountTypes DEF RequestLicense, Goto, memory, files, polar, world,
      Threads, Uncounted
  <2>2. /\ {license', draft', saved'} \subseteq {license, draft, saved, None}
        /\ UNCHANGED <<recorded, made>>
    BY <1>9 DEF RequestLicense, Goto, memory, files, polar, world
  <2>3. QED
    BY <2>1, <2>2, NoneIsNoLicence, CountKept
<1>10. ASSUME NEW ok \in BOOLEAN, CreateReconcile(ok) PROVE CountInv'
  <2>1. Uncounted' \in {0, Uncounted}
    BY <1>10, CountTypes DEF CreateReconcile, ResetDevices, Goto, files, polar,
      Threads, Uncounted
  <2>2. /\ {license', draft', saved'} \subseteq {license, draft, saved, None}
        /\ UNCHANGED <<recorded, made>>
    BY <1>10 DEF CreateReconcile, ResetDevices, Goto, files, polar
  <2>3. QED
    BY <2>1, <2>2, NoneIsNoLicence, CountKept
<1>11. ASSUME NEW d \in devices, DestroyDevice(d) PROVE CountInv'
  <2>1. Uncounted' \in {0, Uncounted}
    BY <1>11, CountTypes DEF DestroyDevice, Destroy, Goto, files, polar, Threads,
      Uncounted
  <2>2. /\ {license', draft', saved'} \subseteq {license, draft, saved, None}
        /\ UNCHANGED <<recorded, made>>
    BY <1>11 DEF DestroyDevice, Destroy, Goto, files, polar
  <2>3. QED
    BY <2>1, <2>2, NoneIsNoLicence, CountKept
<1>12. ASSUME NEW c \in Clients, NEW k \in Kinds, Authorize(c, k) PROVE CountInv'
  <2>1. Uncounted' \in {0, Uncounted}
    BY <1>12, CountTypes DEF Authorize, Creating, NewDevice, Goto, memory, files,
      polar, world, Threads, Uncounted
  <2>2. /\ {license', draft', saved'} \subseteq {license, draft, saved, None}
        /\ UNCHANGED <<recorded, made>>
    BY <1>12 DEF Authorize, Creating, NewDevice, Goto, memory, files, polar, world
  <2>3. QED
    BY <2>1, <2>2, NoneIsNoLicence, CountKept
<1>13. ASSUME NEW c \in Clients, NEW k \in Kinds, AuthorizeEvaluation(c, k) PROVE CountInv'
  <2>1. Uncounted' \in {0, Uncounted}
    BY <1>13, CountTypes DEF AuthorizeEvaluation, Creating, NewDevice, Goto, memory,
      polar, world, Threads, Uncounted
  <2>2. /\ {license', draft', saved'} \subseteq {license, draft, saved, None}
        /\ UNCHANGED <<recorded, made>>
    BY <1>13 DEF AuthorizeEvaluation, Creating, NewDevice, Goto, memory, polar, world
  <2>3. QED
    BY <2>1, <2>2, NoneIsNoLicence, CountKept
<1>14. ASSUME CreateRefused PROVE CountInv'
  <2>1. Uncounted' \in {0, Uncounted}
    BY <1>14, CountTypes DEF CreateRefused, Goto, memory, files, polar, world,
      Threads, Uncounted
  <2>2. /\ {license', draft', saved'} \subseteq {license, draft, saved, None}
        /\ UNCHANGED <<recorded, made>>
    BY <1>14 DEF CreateRefused, Goto, memory, files, polar, world
  <2>3. QED
    BY <2>1, <2>2, NoneIsNoLicence, CountKept
<1>15. ASSUME CreateInDriver PROVE CountInv'
  <2>1. Uncounted = 0 /\ Uncounted' = 1 /\ made' = made + 1
    BY <1>15, CountTypes DEF CreateInDriver, Goto, Uncounted, Threads
  <2>2. UNCHANGED <<license, draft, saved, recorded>>
    BY <1>15 DEF CreateInDriver, memory, files
  <2>3. \A n \in Nat : n + Uncounted <= made => n + Uncounted' <= made'
    BY <2>1, CountTypes
  <2>4. QED
    BY <2>2, <2>3, CountTypes, LicenceFields DEF CountInv
<1>16. ASSUME CreateFails PROVE CountInv'
  <2>1. Uncounted' \in {0, Uncounted}
    BY <1>16, CountTypes DEF CreateFails, Goto, memory, files, polar, world, Threads,
      Uncounted
  <2>2. /\ {license', draft', saved'} \subseteq {license, draft, saved, None}
        /\ UNCHANGED <<recorded, made>>
    BY <1>16 DEF CreateFails, Goto, memory, files, polar, world
  <2>3. QED
    BY <2>1, <2>2, NoneIsNoLicence, CountKept
<1>17. ASSUME Register PROVE CountInv'
  <2>1. Uncounted' \in {0, Uncounted}
    BY <1>17, CountTypes DEF Register, Goto, files, polar, world, Threads, Uncounted
  <2>2. /\ {license', draft', saved'} \subseteq {license, draft, saved, None}
        /\ UNCHANGED <<recorded, made>>
    BY <1>17 DEF Register, Goto, files, polar, world
  <2>3. QED
    BY <2>1, <2>2, NoneIsNoLicence, CountKept
<1>18. ASSUME ValidationDue PROVE CountInv'
  <2>1. Uncounted' \in {0, Uncounted}
    BY <1>18, CountTypes DEF ValidationDue, Goto, files, polar, world, Threads,
      Uncounted
  <2>2. /\ {license', draft', saved'} \subseteq {license, draft, saved, None}
        /\ UNCHANGED <<recorded, made>>
    BY <1>18 DEF ValidationDue, Goto, files, polar, world
  <2>3. QED
    BY <2>1, <2>2, NoneIsNoLicence, CountKept
<1>19. ASSUME NEW t \in Threads, BeginWithoutLicence(t) PROVE CountInv'
  <2>1. Uncounted' \in {0, Uncounted}
    BY <1>19, CountTypes DEF BeginWithoutLicence, Finish, memory, files, polar, world,
      Goto, After, Threads, Uncounted
  <2>2. /\ {license', draft', saved'} \subseteq {license, draft, saved, None}
        /\ UNCHANGED <<recorded, made>>
    BY <1>19 DEF BeginWithoutLicence, Finish, memory, files, polar, world, Goto, After
  <2>3. QED
    BY <2>1, <2>2, NoneIsNoLicence, CountKept
<1>20. ASSUME NEW t \in Threads, BeginCall(t) PROVE CountInv'
  <2>1. Uncounted' \in {0, Uncounted}
    BY <1>20, CountTypes DEF BeginCall, Goto, memory, files, polar, world, Threads,
      Uncounted
  <2>2. /\ {license', draft', saved'} \subseteq {license, draft, saved, None}
        /\ UNCHANGED <<recorded, made>>
    BY <1>20 DEF BeginCall, Goto, memory, files, polar, world
  <2>3. QED
    BY <2>1, <2>2, NoneIsNoLicence, CountKept
<1>21. ASSUME NEW t \in Threads, BeginRecord(t) PROVE CountInv'
  <2>1. /\ t = "service" /\ Uncounted = 1 /\ license \in Licences
        /\ license.pending < MaxDevices
    BY <1>21, RecordFits
  <2>2. /\ license' = [license EXCEPT !.pending = @ + 1] /\ draft' = license'
        /\ saved' = saved
        /\ recorded' = recorded + 1 /\ made' = made
    BY <1>21 DEF BeginRecord, files, world
  <2>3. license'.pending = license.pending + 1
    BY <2>1, <2>2, OneMore
  <2>4. Uncounted' = 0
    BY <1>21, <2>1, CountTypes DEF BeginRecord, Goto, Uncounted, Threads
  <2>5. license.pending \in Nat /\ (saved \in Licences => saved.pending \in Nat)
    BY <2>1, LicenceFields
  <2>6. license.pending + 1 <= made /\ recorded + 1 <= made
    BY <2>1 DEF CountInv
  <2>7. saved \in Licences => saved.pending <= made
    BY <2>1, <2>5, CountTypes DEF CountInv
  <2>8. license'.pending + 0 <= made /\ recorded' + 0 <= made
    BY <2>2, <2>3, <2>5, <2>6, CountTypes
  <2>9. saved \in Licences => saved.pending + 0 <= made
    BY <2>5, <2>7
  <2>10. QED
    BY <2>2, <2>4, <2>8, <2>9 DEF CountInv
<1>22. ASSUME NEW t \in Threads, CallFails(t) PROVE CountInv'
  <2>1. Uncounted' \in {0, Uncounted}
    BY <1>22, CountTypes DEF CallFails, Unavailable, Finish, files, world, Goto,
      After, MarkUnavailable, Threads, Uncounted
  <2>2. /\ {license', draft', saved'} \subseteq {license, draft, saved, None}
        /\ UNCHANGED <<recorded, made>>
    BY <1>22 DEF CallFails, Unavailable, Finish, files, world, Goto, After,
      MarkUnavailable
  <2>3. QED
    BY <2>1, <2>2, NoneIsNoLicence, CountKept
<1>23. ASSUME NEW t \in Threads, ActivationRefused(t) PROVE CountInv'
  <2>1. Uncounted' \in {0, Uncounted}
    BY <1>23, CountTypes DEF ActivationRefused, Finish, memory, files, polar, world,
      Goto, After, Threads, Uncounted
  <2>2. /\ {license', draft', saved'} \subseteq {license, draft, saved, None}
        /\ UNCHANGED <<recorded, made>>
    BY <1>23 DEF ActivationRefused, Finish, memory, files, polar, world, Goto, After
  <2>3. QED
    BY <2>1, <2>2, NoneIsNoLicence, CountKept
<1>24. ASSUME NEW t \in Threads, Denied(t) PROVE CountInv'
  <2>1. Uncounted' \in {0, Uncounted}
    BY <1>24, CountTypes DEF Denied, ForgetLicence, Goto, files, polar, world,
      Threads, Uncounted
  <2>2. /\ {license', draft', saved'} \subseteq {license, draft, saved, None}
        /\ UNCHANGED <<recorded, made>>
    BY <1>24 DEF Denied, ForgetLicence, Goto, files, polar, world
  <2>3. QED
    BY <2>1, <2>2, NoneIsNoLicence, CountKept
<1>25. ASSUME NEW t \in Threads, Deactivated(t) PROVE CountInv'
  <2>1. Uncounted' \in {0, Uncounted}
    BY <1>25, CountTypes DEF Deactivated, Goto, memory, world, Threads, Uncounted
  <2>2. /\ {license', draft', saved'} \subseteq {license, draft, saved, None}
        /\ UNCHANGED <<recorded, made>>
    BY <1>25 DEF Deactivated, Goto, memory, world
  <2>3. QED
    BY <2>1, <2>2, NoneIsNoLicence, CountKept
<1>26. ASSUME NEW t \in Threads, Validated(t) PROVE CountInv'
  <2>1. draft \in Licences /\ draft' = [draft EXCEPT !.age = "current", !.pending = 0]
    BY <1>26 DEF Validated, ThreadInv
  <2>2. draft'.pending = 0
    BY <2>1, Reported
  <2>3. UNCHANGED <<license, saved, recorded, made>> /\ Uncounted' = Uncounted
    BY <1>26, CountTypes DEF Validated, Goto, Uncounted, memory, files, world
  <2>4. 0 + Uncounted <= made
    BY CountTypes DEF CountInv
  <2>5. QED
    BY <2>2, <2>3, <2>4 DEF CountInv
<1>27. ASSUME NEW t \in Threads, NEW k \in Keys, Activated(t, k) PROVE CountInv'
  <2>1. draft'.pending = IF license # None /\ license.key = k THEN license.pending ELSE 0
    BY <1>27 DEF Activated
  <2>2. UNCHANGED <<license, saved, recorded, made>> /\ Uncounted' = Uncounted
    BY <1>27, CountTypes DEF Activated, Goto, Uncounted, memory, files, world
  <2>3. 0 + Uncounted <= made
    BY CountTypes DEF CountInv
  <2>4. draft'.pending + Uncounted <= made
    BY <2>1, <2>3, CountTypes DEF CountInv
  <2>5. QED
    BY <2>2, <2>4 DEF CountInv
<1>28. ASSUME NEW t \in Threads, NEW ok \in BOOLEAN, DeleteFile(t, ok) PROVE CountInv'
  <2>1. Uncounted' \in {0, Uncounted}
    BY <1>28, CountTypes DEF DeleteFile, Finish, memory, polar, world, Goto, After,
      Threads, Uncounted
  <2>2. /\ {license', draft', saved'} \subseteq {license, draft, saved, None}
        /\ UNCHANGED <<recorded, made>>
    BY <1>28 DEF DeleteFile, Finish, memory, polar, world, Goto, After
  <2>3. QED
    BY <2>1, <2>2, NoneIsNoLicence, CountKept
<1>29. ASSUME NEW t \in Threads, ResetAfterDelete(t) PROVE CountInv'
  <2>1. Uncounted' \in {0, Uncounted}
    BY <1>29, CountTypes DEF ResetAfterDelete, ForgetLicence, Finish, files, polar,
      world, Goto, After, Threads, Uncounted
  <2>2. /\ {license', draft', saved'} \subseteq {license, draft, saved, None}
        /\ UNCHANGED <<recorded, made>>
    BY <1>29 DEF ResetAfterDelete, ForgetLicence, Finish, files, polar, world, Goto,
      After
  <2>3. QED
    BY <2>1, <2>2, NoneIsNoLicence, CountKept
<1>30. ASSUME NEW t \in Threads, OpenFile(t) PROVE CountInv'
  <2>1. Uncounted' \in {0, Uncounted}
    BY <1>30, CountTypes DEF OpenFile, Goto, memory, polar, world, Threads, Uncounted
  <2>2. /\ {license', draft', saved'} \subseteq {license, draft, saved, None}
        /\ UNCHANGED <<recorded, made>>
    BY <1>30 DEF OpenFile, Goto, memory, polar, world
  <2>3. QED
    BY <2>1, <2>2, NoneIsNoLicence, CountKept
<1>31. ASSUME NEW t \in Threads, SaveFails(t) PROVE CountInv'
  <2>1. Uncounted' \in {0, Uncounted}
    BY <1>31, CountTypes DEF SaveFails, Unavailable, Finish, files, polar, world,
      Goto, After, MarkUnavailable, Threads, Uncounted
  <2>2. /\ {license', draft', saved'} \subseteq {license, draft, saved, None}
        /\ UNCHANGED <<recorded, made>>
    BY <1>31 DEF SaveFails, Unavailable, Finish, files, polar, world, Goto, After,
      MarkUnavailable
  <2>3. QED
    BY <2>1, <2>2, NoneIsNoLicence, CountKept
<1>32. ASSUME NEW t \in Threads, WriteFile(t) PROVE CountInv'
  <2>1. Uncounted' \in {0, Uncounted}
    BY <1>32, CountTypes DEF WriteFile, Goto, memory, polar, world, Threads, Uncounted
  <2>2. /\ {license', draft', saved'} \subseteq {license, draft, saved, None}
        /\ UNCHANGED <<recorded, made>>
    BY <1>32 DEF WriteFile, Goto, memory, polar, world
  <2>3. QED
    BY <2>1, <2>2, NoneIsNoLicence, CountKept
<1>33. ASSUME NEW t \in Threads, CommitRecord(t) PROVE CountInv'
  <2>1. Uncounted' \in {0, Uncounted}
    BY <1>33, CountTypes DEF CommitRecord, Finish, memory, files, polar, world, Goto,
      After, Threads, Uncounted
  <2>2. /\ {license', draft', saved'} \subseteq {license, draft, saved, None}
        /\ UNCHANGED <<recorded, made>>
    BY <1>33 DEF CommitRecord, Finish, memory, files, polar, world, Goto, After
  <2>3. QED
    BY <2>1, <2>2, NoneIsNoLicence, CountKept
<1>34. ASSUME NEW t \in Threads, Commit(t) PROVE CountInv'
  <2>1. draft \in Licences
    BY <1>34 DEF Commit, ThreadInv, Saving
  <2>2. /\ license' = draft /\ saved' = saved /\ draft' = None /\ made' = made
        /\ recorded' \in {recorded, draft.pending}
    BY <1>34 DEF Commit, Finish, files, world
  <2>3. Uncounted' = Uncounted
    BY <1>34, CountTypes DEF Commit, Finish, Goto, After, Uncounted
  <2>4. QED
    BY <2>1, <2>2, <2>3, NoneIsNoLicence DEF CountInv
<1>35. ASSUME NEW t \in Threads, Schedule(t) PROVE CountInv'
  <2>1. Uncounted' \in {0, Uncounted}
    BY <1>35, CountTypes DEF Schedule, Goto, files, polar, world, Threads, Uncounted
  <2>2. /\ {license', draft', saved'} \subseteq {license, draft, saved, None}
        /\ UNCHANGED <<recorded, made>>
    BY <1>35 DEF Schedule, Goto, files, polar, world
  <2>3. QED
    BY <2>1, <2>2, NoneIsNoLicence, CountKept
<1>36. ASSUME TimerFires PROVE CountInv'
  <2>1. Uncounted' \in {0, Uncounted}
    BY <1>36, CountTypes DEF TimerFires, thread, files, polar, world, Threads,
      Uncounted
  <2>2. /\ {license', draft', saved'} \subseteq {license, draft, saved, None}
        /\ UNCHANGED <<recorded, made>>
    BY <1>36 DEF TimerFires, thread, files, polar, world
  <2>3. QED
    BY <2>1, <2>2, NoneIsNoLicence, CountKept
<1>37. ASSUME HourPasses PROVE CountInv'
  <2>1. Uncounted' \in {0, Uncounted}
    BY <1>37, CountTypes DEF HourPasses, thread, files, polar, world, Threads,
      Uncounted
  <2>2. /\ {license', draft', saved'} \subseteq {license, draft, saved, None}
        /\ UNCHANGED <<recorded, made>>
    BY <1>37 DEF HourPasses, thread, files, polar, world
  <2>3. QED
    BY <2>1, <2>2, NoneIsNoLicence, CountKept
<1>38. ASSUME ValidationLapses PROVE CountInv'
  <2>1. Lapse(None) = None
    BY DEF Lapse
  <2>2. /\ license' \in Licences => license \in Licences /\ license'.pending = license.pending
        /\ saved' \in Licences => saved \in Licences /\ saved'.pending = saved.pending
    BY <1>38, <2>1, Aging, NoneIsNoLicence, CountTypes DEF ValidationLapses
  <2>3. UNCHANGED <<draft, recorded, made>> /\ Uncounted' = Uncounted
    BY <1>38 DEF ValidationLapses, thread, world, Uncounted
  <2>4. QED
    BY <2>2, <2>3, CountKept
<1>39. ASSUME WindowCloses PROVE CountInv'
  <2>1. Uncounted' \in {0, Uncounted}
    BY <1>39, CountTypes DEF WindowCloses, memory, thread, polar, world, Threads,
      Uncounted
  <2>2. /\ {license', draft', saved'} \subseteq {license, draft, saved, None}
        /\ UNCHANGED <<recorded, made>>
    BY <1>39 DEF WindowCloses, memory, thread, polar, world
  <2>3. QED
    BY <2>1, <2>2, NoneIsNoLicence, CountKept
<1>40. ASSUME NEW a \in granted, PolarRevokes(a) PROVE CountInv'
  <2>1. Uncounted' \in {0, Uncounted}
    BY <1>40, CountTypes DEF PolarRevokes, memory, thread, files, world, Threads,
      Uncounted
  <2>2. /\ {license', draft', saved'} \subseteq {license, draft, saved, None}
        /\ UNCHANGED <<recorded, made>>
    BY <1>40 DEF PolarRevokes, memory, thread, files, world
  <2>3. QED
    BY <2>1, <2>2, NoneIsNoLicence, CountKept
<1>41. ASSUME NEW c \in alive, ClientDies(c) PROVE CountInv'
  <2>1. Uncounted' \in {0, Uncounted}
    BY <1>41, CountTypes DEF ClientDies, memory, thread, files, polar, Threads,
      Uncounted
  <2>2. /\ {license', draft', saved'} \subseteq {license, draft, saved, None}
        /\ UNCHANGED <<recorded, made>>
    BY <1>41 DEF ClientDies, memory, thread, files, polar
  <2>3. QED
    BY <2>1, <2>2, NoneIsNoLicence, CountKept
<1>42. ASSUME BrokerDies PROVE CountInv'
  <2>1. Aged(None, "unknown") = None
    BY DEF Aged
  <2>2. /\ license' = None /\ draft' = None /\ recorded' = recorded /\ made' = made
        /\ saved' \in Licences => saved \in Licences /\ saved'.pending = saved.pending
    BY <1>42, <2>1, Aging, NoneIsNoLicence, CountTypes DEF BrokerDies, ProcessEnds
  <2>3. Uncounted' = 0
    BY <1>42 DEF BrokerDies, ProcessEnds, Uncounted, Threads
  <2>4. QED
    BY <2>2, <2>3, NoneIsNoLicence, CountKept
<1>43. ASSUME WindowsRestarts PROVE CountInv'
  <2>1. Aged(None, "unknown") = None
    BY DEF Aged
  <2>2. /\ license' = None /\ draft' = None /\ recorded' = recorded /\ made' = made
        /\ saved' \in Licences => saved \in Licences /\ saved'.pending = saved.pending
    BY <1>43, <2>1, Aging, NoneIsNoLicence, CountTypes DEF WindowsRestarts,
      ProcessEnds
  <2>3. Uncounted' = 0
    BY <1>43 DEF WindowsRestarts, ProcessEnds, Uncounted, Threads
  <2>4. QED
    BY <2>2, <2>3, NoneIsNoLicence, CountKept
<1>44. CASE UNCHANGED vars
  <2>1. UNCHANGED <<pc, op, license, draft, saved, recorded, made>>
    BY <1>44 DEF vars, memory, thread, files, polar, world
  <2>2. Uncounted' = Uncounted
    BY <2>1 DEF Uncounted
  <2>3. QED
    BY <2>1, <2>2, CountKept
<1>45. QED
  BY <1>1, <1>2, <1>3, <1>4, <1>5, <1>6, <1>7, <1>8, <1>9, <1>10, <1>11, <1>12,
    <1>13, <1>14, <1>15, <1>16, <1>17, <1>18, <1>19, <1>20, <1>21, <1>22, <1>23,
    <1>24, <1>25, <1>26, <1>27, <1>28, <1>29, <1>30, <1>31, <1>32, <1>33, <1>34,
    <1>35, <1>36, <1>37, <1>38, <1>39, <1>40, <1>41, <1>42, <1>43, <1>44 DEF Next,
    Cleanup, Requests, Creation, LicenceStep, Environment

\* A licence operation works on what it started from.
LEMMA DraftInvNext ==
  ASSUME TypeOK, ThreadInv, CountInv, DraftInv, UsageNotLost, [Next]_vars
  PROVE  DraftInv'
<1> USE DEF TypeOK, ThreadInv, DraftInv, Threads, Saving, Holding
<1>1. ASSUME Start PROVE DraftInv'
  BY <1>1 DEF Start, files, world
<1>2. ASSUME NEW ok \in BOOLEAN, Construct(ok) PROVE DraftInv'
  BY <1>2 DEF Construct, ResetDevices, Goto, files, polar
<1>3. ASSUME NEW ok \in BOOLEAN, Reconcile(ok) PROVE DraftInv'
  BY <1>3 DEF Reconcile, ResetDevices, Goto, files, polar
<1>4. ASSUME CleanupSelect PROVE DraftInv'
  BY <1>4 DEF CleanupSelect, Goto, files, polar, world
<1>5. ASSUME CleanupFinish PROVE DraftInv'
  BY <1>5 DEF CleanupFinish, Goto, files, polar, world
<1>6. ASSUME NEW d \in cleanup, CleanupDestroy(d) PROVE DraftInv'
  BY <1>6 DEF CleanupDestroy, Destroy, files, polar
<1>7. ASSUME NEW d \in cleanup, CleanupFails(d) PROVE DraftInv'
  BY <1>7 DEF CleanupFails, memory, files, polar, world
<1>8. ASSUME NoRequest PROVE DraftInv'
  BY <1>8 DEF NoRequest, Goto, memory, files, polar, world
<1>9. ASSUME NEW o \in {"validate", "activate", "deactivate"}, RequestLicense(o)
      PROVE  DraftInv'
  BY <1>9 DEF RequestLicense, Goto, memory, files, polar, world
<1>10. ASSUME NEW ok \in BOOLEAN, CreateReconcile(ok) PROVE DraftInv'
  BY <1>10 DEF CreateReconcile, ResetDevices, Goto, files, polar
<1>11. ASSUME NEW d \in devices, DestroyDevice(d) PROVE DraftInv'
  BY <1>11 DEF DestroyDevice, Destroy, Goto, files, polar
<1>12. ASSUME NEW c \in Clients, NEW k \in Kinds, Authorize(c, k) PROVE DraftInv'
  BY <1>12 DEF Authorize, Creating, NewDevice, Goto, memory, files, polar, world
<1>13. ASSUME NEW c \in Clients, NEW k \in Kinds, AuthorizeEvaluation(c, k) PROVE DraftInv'
  BY <1>13 DEF AuthorizeEvaluation, Creating, NewDevice, Goto, memory, polar, world
<1>14. ASSUME CreateRefused PROVE DraftInv'
  BY <1>14 DEF CreateRefused, Goto, memory, files, polar, world
<1>15. ASSUME CreateInDriver PROVE DraftInv'
  BY <1>15 DEF CreateInDriver, Goto, memory, files, polar
<1>16. ASSUME CreateFails PROVE DraftInv'
  BY <1>16 DEF CreateFails, Goto, memory, files, polar, world
<1>17. ASSUME Register PROVE DraftInv'
  BY <1>17 DEF Register, Goto, files, polar, world
<1>18. ASSUME ValidationDue PROVE DraftInv'
  BY <1>18 DEF ValidationDue, Goto, files, polar, world
<1>19. ASSUME NEW t \in Threads, BeginWithoutLicence(t) PROVE DraftInv'
  BY <1>19, BrokerAssumption DEF BeginWithoutLicence, Finish, memory, files, polar,
    world, Goto, After
<1>20. ASSUME NEW t \in Threads, BeginCall(t) PROVE DraftInv'
  BY <1>20, BrokerAssumption DEF BeginCall, Goto, memory, files, polar, world
<1>21. ASSUME NEW t \in Threads, BeginRecord(t) PROVE DraftInv'
  <2>1. draft' = license' /\ license \in Licences /\ license' \in Licences
    BY <1>21, RecordFits, OneMore DEF BeginRecord
  <2>2. op[t] = "record" /\ opLock = None
    BY <1>21 DEF BeginRecord
  <2>3. QED
    BY <1>21, <2>1, <2>2, BrokerAssumption DEF BeginRecord, Goto, polar
<1>22. ASSUME NEW t \in Threads, CallFails(t) PROVE DraftInv'
  <2>1. UNCHANGED license /\ opLock = t
    BY <1>22 DEF CallFails
  <2>2. \A s \in Threads : pc'[s] \notin Holding
    BY <1>22, <2>1 DEF CallFails, Finish, Goto, After
  <2>3. QED
    BY <2>2
<1>23. ASSUME NEW t \in Threads, ActivationRefused(t) PROVE DraftInv'
  BY <1>23 DEF ActivationRefused, Finish, memory, files, polar, world, Goto, After
<1>24. ASSUME NEW t \in Threads, Denied(t) PROVE DraftInv'
  BY <1>24 DEF Denied, ForgetLicence, Goto, files, polar, world
<1>25. ASSUME NEW t \in Threads, Deactivated(t) PROVE DraftInv'
  BY <1>25 DEF Deactivated, Goto, memory, world
<1>26. ASSUME NEW t \in Threads, Validated(t) PROVE DraftInv'
  <2>1. draft \in Licences /\ draft' = [draft EXCEPT !.age = "current", !.pending = 0]
    BY <1>26 DEF Validated
  <2>2. draft'.age = "current" /\ draft'.pending = 0
    BY <2>1, Reported
  <2>3. license # None /\ draft.pending = license.pending
    BY <1>26 DEF Validated
  <2>4. counted' = AtMost(counted + draft.pending, MaxDevices) /\ recorded' = recorded
    BY <1>26 DEF Validated
  <2>5. counted' >= recorded'
    <3>1. counted + draft.pending >= recorded /\ recorded <= MaxDevices
      BY <2>3 DEF UsageNotLost
    <3>2. QED
      BY <2>1, <2>4, <3>1, LicenceFields, BrokerAssumption DEF AtMost
  <2>6. QED
    BY <1>26, <2>2, <2>5 DEF Validated, Goto, memory
<1>27. ASSUME NEW t \in Threads, NEW k \in Keys, Activated(t, k) PROVE DraftInv'
  <2>1. draft'.age = "current" /\ draft'.key = k
        /\ draft'.pending = IF license # None /\ license.key = k THEN license.pending ELSE 0
    BY <1>27 DEF Activated
  <2>2. op[t] = "activate" /\ license' = license
    BY <1>27 DEF Activated, memory
  <2>3. QED
    BY <1>27, <2>1, <2>2 DEF Activated, Goto
<1>28. ASSUME NEW t \in Threads, NEW ok \in BOOLEAN, DeleteFile(t, ok) PROVE DraftInv'
  BY <1>28 DEF DeleteFile, Finish, memory, polar, world, Goto, After
<1>29. ASSUME NEW t \in Threads, ResetAfterDelete(t) PROVE DraftInv'
  BY <1>29 DEF ResetAfterDelete, ForgetLicence, Finish, files, polar, world, Goto,
    After
<1>30. ASSUME NEW t \in Threads, OpenFile(t) PROVE DraftInv'
  BY <1>30 DEF OpenFile, Goto, memory, polar, world
<1>31. ASSUME NEW t \in Threads, SaveFails(t) PROVE DraftInv'
  BY <1>31 DEF SaveFails, Unavailable, Finish, files, polar, world, Goto, After,
    MarkUnavailable
<1>32. ASSUME NEW t \in Threads, WriteFile(t) PROVE DraftInv'
  BY <1>32 DEF WriteFile, Goto, memory, polar, world
<1>33. ASSUME NEW t \in Threads, CommitRecord(t) PROVE DraftInv'
  BY <1>33 DEF CommitRecord, Finish, memory, files, polar, world, Goto, After
<1>34. ASSUME NEW t \in Threads, Commit(t) PROVE DraftInv'
  BY <1>34 DEF Commit, Finish, files, world, Goto, After
<1>35. ASSUME NEW t \in Threads, Schedule(t) PROVE DraftInv'
  BY <1>35 DEF Schedule, Goto, files, polar, world
<1>36. ASSUME TimerFires PROVE DraftInv'
  BY <1>36 DEF TimerFires, thread, files, polar, world
<1>37. ASSUME HourPasses PROVE DraftInv'
  BY <1>37 DEF HourPasses, thread, files, polar, world
<1>38. ASSUME ValidationLapses PROVE DraftInv'
  <2>1. license' # None <=> license # None
    BY <1>38, LicenceFields, Aging DEF ValidationLapses, Lapse
  <2>2. license # None => license'.key = license.key /\ license'.pending = license.pending
    BY <1>38, Aging DEF ValidationLapses
  <2>3. UNCHANGED <<pc, op, draft, counted, recorded>>
    BY <1>38 DEF ValidationLapses, thread, polar
  <2>4. QED
    BY <2>1, <2>2, <2>3
<1>39. ASSUME WindowCloses PROVE DraftInv'
  BY <1>39 DEF WindowCloses, memory, thread, polar, world
<1>40. ASSUME NEW a \in granted, PolarRevokes(a) PROVE DraftInv'
  BY <1>40 DEF PolarRevokes, memory, thread, files, world
<1>41. ASSUME NEW c \in alive, ClientDies(c) PROVE DraftInv'
  BY <1>41 DEF ClientDies, memory, thread, files, polar
<1>42. ASSUME BrokerDies PROVE DraftInv'
  BY <1>42 DEF BrokerDies, ProcessEnds, files, polar
<1>43. ASSUME WindowsRestarts PROVE DraftInv'
  BY <1>43 DEF WindowsRestarts, ProcessEnds, polar
<1>44. CASE UNCHANGED vars
  BY <1>44 DEF vars, memory, thread, files, polar, world
<1> HIDE DEF DraftInv
<1>45. QED
  BY <1>1, <1>2, <1>3, <1>4, <1>5, <1>6, <1>7, <1>8, <1>9, <1>10, <1>11, <1>12,
    <1>13, <1>14, <1>15, <1>16, <1>17, <1>18, <1>19, <1>20, <1>21, <1>22, <1>23,
    <1>24, <1>25, <1>26, <1>27, <1>28, <1>29, <1>30, <1>31, <1>32, <1>33, <1>34,
    <1>35, <1>36, <1>37, <1>38, <1>39, <1>40, <1>41, <1>42, <1>43, <1>44 DEF Next,
    Cleanup, Requests, Creation, LicenceStep, Environment

\* No usage is lost.
LEMMA UsageNext ==
  ASSUME TypeOK, ThreadInv, CountInv, DraftInv, UsageNotLost, [Next]_vars
  PROVE  UsageNotLost'
<1> USE DEF UsageNotLost
<1>1. ASSUME Start PROVE UsageNotLost'
  <2>1. /\ license' \in {saved, None} /\ counted' = 0
        /\ recorded' = IF license' = None THEN 0 ELSE license'.pending
    BY <1>1 DEF Start
  <2>2. QED
    BY <2>1, LicenceFields DEF TypeOK
<1>2. ASSUME NEW ok \in BOOLEAN, Construct(ok) PROVE UsageNotLost'
  BY <1>2 DEF Construct, ResetDevices, Goto, files, polar
<1>3. ASSUME NEW ok \in BOOLEAN, Reconcile(ok) PROVE UsageNotLost'
  BY <1>3 DEF Reconcile, ResetDevices, Goto, files, polar
<1>4. ASSUME CleanupSelect PROVE UsageNotLost'
  BY <1>4 DEF CleanupSelect, Goto, files, polar, world
<1>5. ASSUME CleanupFinish PROVE UsageNotLost'
  BY <1>5 DEF CleanupFinish, Goto, files, polar, world
<1>6. ASSUME NEW d \in cleanup, CleanupDestroy(d) PROVE UsageNotLost'
  BY <1>6 DEF CleanupDestroy, Destroy, files, polar
<1>7. ASSUME NEW d \in cleanup, CleanupFails(d) PROVE UsageNotLost'
  BY <1>7 DEF CleanupFails, memory, files, polar, world
<1>8. ASSUME NoRequest PROVE UsageNotLost'
  BY <1>8 DEF NoRequest, Goto, memory, files, polar, world
<1>9. ASSUME NEW o \in {"validate", "activate", "deactivate"}, RequestLicense(o)
      PROVE  UsageNotLost'
  BY <1>9 DEF RequestLicense, Goto, memory, files, polar, world
<1>10. ASSUME NEW ok \in BOOLEAN, CreateReconcile(ok) PROVE UsageNotLost'
  BY <1>10 DEF CreateReconcile, ResetDevices, Goto, files, polar
<1>11. ASSUME NEW d \in devices, DestroyDevice(d) PROVE UsageNotLost'
  BY <1>11 DEF DestroyDevice, Destroy, Goto, files, polar
<1>12. ASSUME NEW c \in Clients, NEW k \in Kinds, Authorize(c, k) PROVE UsageNotLost'
  BY <1>12 DEF Authorize, Creating, NewDevice, Goto, memory, files, polar, world
<1>13. ASSUME NEW c \in Clients, NEW k \in Kinds, AuthorizeEvaluation(c, k)
      PROVE  UsageNotLost'
  BY <1>13 DEF AuthorizeEvaluation, Creating, NewDevice, Goto, memory, polar, world
<1>14. ASSUME CreateRefused PROVE UsageNotLost'
  BY <1>14 DEF CreateRefused, Goto, memory, files, polar, world
<1>15. ASSUME CreateInDriver PROVE UsageNotLost'
  BY <1>15 DEF CreateInDriver, Goto, memory, files, polar
<1>16. ASSUME CreateFails PROVE UsageNotLost'
  BY <1>16 DEF CreateFails, Goto, memory, files, polar, world
<1>17. ASSUME Register PROVE UsageNotLost'
  BY <1>17 DEF Register, Goto, files, polar, world
<1>18. ASSUME ValidationDue PROVE UsageNotLost'
  BY <1>18 DEF ValidationDue, Goto, files, polar, world
<1>19. ASSUME NEW t \in Threads, BeginWithoutLicence(t) PROVE UsageNotLost'
  BY <1>19 DEF BeginWithoutLicence, Finish, memory, files, polar, world, Goto, After
<1>20. ASSUME NEW t \in Threads, BeginCall(t) PROVE UsageNotLost'
  BY <1>20 DEF BeginCall, Goto, memory, files, polar, world
<1>21. ASSUME NEW t \in Threads, BeginRecord(t) PROVE UsageNotLost'
  <2>1. license \in Licences /\ license.pending < MaxDevices
    BY <1>21, RecordFits
  <2>2. /\ license' = [license EXCEPT !.pending = @ + 1]
        /\ recorded' = recorded + 1 /\ counted' = counted
    BY <1>21 DEF BeginRecord, polar
  <2>3. license # None /\ license'.pending = license.pending + 1
    BY <2>1, <2>2, OneMore, LicenceFields
  <2>4. QED
    BY <2>1, <2>2, <2>3, LicenceFields DEF TypeOK
<1>22. ASSUME NEW t \in Threads, CallFails(t) PROVE UsageNotLost'
  <2>1. op[t] = "validate" => draft \in Licences
    BY <1>22 DEF CallFails, ThreadInv
  <2>2. counted' \in Nat /\ counted' >= counted
    BY <1>22, <2>1, BrokerAssumption, LicenceFields DEF CallFails, AtMost, TypeOK
  <2>3. UNCHANGED <<license, recorded>>
    BY <1>22 DEF CallFails
  <2>4. license # None => license.pending \in Nat
    BY LicenceFields DEF TypeOK
  <2>5. QED
    BY <2>2, <2>3, <2>4 DEF TypeOK
<1>23. ASSUME NEW t \in Threads, ActivationRefused(t) PROVE UsageNotLost'
  BY <1>23 DEF ActivationRefused, Finish, memory, files, polar, world, Goto, After
<1>24. ASSUME NEW t \in Threads, Denied(t) PROVE UsageNotLost'
  BY <1>24 DEF Denied, ForgetLicence, Goto, files, polar, world
<1>25. ASSUME NEW t \in Threads, Deactivated(t) PROVE UsageNotLost'
  BY <1>25 DEF Deactivated, Goto, memory, world
<1>26. ASSUME NEW t \in Threads, Validated(t) PROVE UsageNotLost'
  <2>1. draft \in Licences
    BY <1>26 DEF Validated, ThreadInv
  <2>2. counted' \in Nat /\ counted' >= counted
    BY <1>26, <2>1, BrokerAssumption, LicenceFields DEF Validated, AtMost, TypeOK
  <2>3. UNCHANGED <<license, recorded>>
    BY <1>26 DEF Validated, memory
  <2>4. license # None => license.pending \in Nat
    BY LicenceFields DEF TypeOK
  <2>5. QED
    BY <2>2, <2>3, <2>4 DEF TypeOK
<1>27. ASSUME NEW t \in Threads, NEW k \in Keys, Activated(t, k) PROVE UsageNotLost'
  BY <1>27 DEF Activated, Goto, memory, files, world
<1>28. ASSUME NEW t \in Threads, NEW ok \in BOOLEAN, DeleteFile(t, ok) PROVE UsageNotLost'
  BY <1>28 DEF DeleteFile, Finish, memory, polar, world, Goto, After
<1>29. ASSUME NEW t \in Threads, ResetAfterDelete(t) PROVE UsageNotLost'
  BY <1>29 DEF ResetAfterDelete, ForgetLicence, Finish, files, polar, world, Goto,
    After
<1>30. ASSUME NEW t \in Threads, OpenFile(t) PROVE UsageNotLost'
  BY <1>30 DEF OpenFile, Goto, memory, polar, world
<1>31. ASSUME NEW t \in Threads, SaveFails(t) PROVE UsageNotLost'
  BY <1>31 DEF SaveFails, Unavailable, Finish, files, polar, world, Goto, After,
    MarkUnavailable
<1>32. ASSUME NEW t \in Threads, WriteFile(t) PROVE UsageNotLost'
  BY <1>32 DEF WriteFile, Goto, memory, polar, world
<1>33. ASSUME NEW t \in Threads, CommitRecord(t) PROVE UsageNotLost'
  BY <1>33 DEF CommitRecord, Finish, memory, files, polar, world, Goto, After
<1>34. ASSUME NEW t \in Threads, Commit(t) PROVE UsageNotLost'
  <2>1. draft \in Licences /\ draft.pending \in Nat /\ pc[t] \in Saving
    BY <1>34, LicenceFields DEF Commit, ThreadInv, Saving
  <2>2. license' = draft
    BY <1>34 DEF Commit
  <2>3. CASE op[t] = "activate" /\ (license = None \/ license.key # draft.key)
    BY <1>34, <2>1, <2>2, <2>3 DEF Commit
  <2>4. CASE op[t] = "activate" /\ license # None /\ license.key = draft.key
    BY <1>34, <2>1, <2>2, <2>4 DEF Commit, DraftInv
  <2>5. CASE op[t] = "validate"
    <3>1. UNCHANGED <<recorded, counted>>
      BY <1>34, <2>5 DEF Commit
    <3>2. draft.pending = 0 /\ counted >= recorded
      BY <2>1, <2>5 DEF DraftInv
    <3>3. QED
      BY <2>2, <3>1, <3>2 DEF TypeOK
  <2>6. QED
    BY <1>34, <2>3, <2>4, <2>5 DEF Commit
<1>35. ASSUME NEW t \in Threads, Schedule(t) PROVE UsageNotLost'
  BY <1>35 DEF Schedule, Goto, files, polar, world
<1>36. ASSUME TimerFires PROVE UsageNotLost'
  BY <1>36 DEF TimerFires, thread, files, polar, world
<1>37. ASSUME HourPasses PROVE UsageNotLost'
  BY <1>37 DEF HourPasses, thread, files, polar, world
<1>38. ASSUME ValidationLapses PROVE UsageNotLost'
  <2>1. license' # None => license # None
    BY <1>38, LicenceFields DEF ValidationLapses, Lapse
  <2>2. license # None => license'.pending = license.pending
    BY <1>38, Aging DEF ValidationLapses, TypeOK
  <2>3. UNCHANGED <<counted, recorded>>
    BY <1>38 DEF ValidationLapses, polar
  <2>4. QED
    BY <2>1, <2>2, <2>3
<1>39. ASSUME WindowCloses PROVE UsageNotLost'
  BY <1>39 DEF WindowCloses, memory, thread, polar, world
<1>40. ASSUME NEW a \in granted, PolarRevokes(a) PROVE UsageNotLost'
  BY <1>40 DEF PolarRevokes, memory, thread, files, world
<1>41. ASSUME NEW c \in alive, ClientDies(c) PROVE UsageNotLost'
  BY <1>41 DEF ClientDies, memory, thread, files, polar
<1>42. ASSUME BrokerDies PROVE UsageNotLost'
  BY <1>42 DEF BrokerDies, ProcessEnds, files, polar
<1>43. ASSUME WindowsRestarts PROVE UsageNotLost'
  BY <1>43 DEF WindowsRestarts, ProcessEnds, polar
<1>44. CASE UNCHANGED vars
  BY <1>44 DEF vars, memory, thread, files, polar, world
<1> HIDE DEF UsageNotLost
<1>45. QED
  BY <1>1, <1>2, <1>3, <1>4, <1>5, <1>6, <1>7, <1>8, <1>9, <1>10, <1>11, <1>12,
    <1>13, <1>14, <1>15, <1>16, <1>17, <1>18, <1>19, <1>20, <1>21, <1>22, <1>23,
    <1>24, <1>25, <1>26, <1>27, <1>28, <1>29, <1>30, <1>31, <1>32, <1>33, <1>34,
    <1>35, <1>36, <1>37, <1>38, <1>39, <1>40, <1>41, <1>42, <1>43, <1>44 DEF Next,
    Cleanup, Requests, Creation, LicenceStep, Environment

\* The order to revoke is not lost.
LEMMA RevocationNext ==
  ASSUME TypeOK, ThreadInv, CountInv, JobCovered, DriverDevicesTracked, RevocationPending,
         [Next]_vars
  PROVE  RevocationPending'
<1> USE DEF RevocationPending, Running, Licensed, TypeOK, Threads
<1>1. ASSUME Start PROVE RevocationPending'
  BY <1>1 DEF Start, Running, Threads, files, world
<1>2. ASSUME NEW ok \in BOOLEAN, Construct(ok) PROVE RevocationPending'
  BY <1>2 DEF Construct, ResetDevices, Goto, files, polar
<1>3. ASSUME NEW ok \in BOOLEAN, Reconcile(ok) PROVE RevocationPending'
  BY <1>3 DEF Reconcile, ResetDevices, Goto, files, polar
<1>4. ASSUME CleanupSelect PROVE RevocationPending'
  BY <1>4 DEF CleanupSelect, Goto, files, polar, world
<1>5. ASSUME CleanupFinish PROVE RevocationPending'
  <2>1. Running /\ pc["service"] # "register"
    BY <1>5 DEF CleanupFinish, Running
  <2>2. reconciled => Licensed(driver) \subseteq Licensed(devices)
    BY <2>1 DEF DriverDevicesTracked, Licensed
  <2>3. UNCHANGED <<license, reconciled, driver>> /\ revoke' = (revoke /\ Licensed(devices) # {})
    BY <1>5 DEF CleanupFinish, world
  <2>4. QED
    BY <2>1, <2>2, <2>3
<1>6. ASSUME NEW d \in cleanup, CleanupDestroy(d) PROVE RevocationPending'
  BY <1>6 DEF CleanupDestroy, Destroy, files, polar
<1>7. ASSUME NEW d \in cleanup, CleanupFails(d) PROVE RevocationPending'
  BY <1>7 DEF CleanupFails, memory, files, polar, world
<1>8. ASSUME NoRequest PROVE RevocationPending'
  BY <1>8 DEF NoRequest, Goto, memory, files, polar, world
<1>9. ASSUME NEW o \in {"validate", "activate", "deactivate"}, RequestLicense(o)
      PROVE  RevocationPending'
  BY <1>9 DEF RequestLicense, Goto, memory, files, polar, world
<1>10. ASSUME NEW ok \in BOOLEAN, CreateReconcile(ok) PROVE RevocationPending'
  BY <1>10 DEF CreateReconcile, ResetDevices, Goto, files, polar
<1>11. ASSUME NEW d \in devices, DestroyDevice(d) PROVE RevocationPending'
  BY <1>11 DEF DestroyDevice, Destroy, Goto, files, polar
<1>12. ASSUME NEW c \in Clients, NEW k \in Kinds, Authorize(c, k) PROVE RevocationPending'
  BY <1>12 DEF Authorize, Creating, Licensed, NewDevice, Goto, memory, files, polar,
    world
<1>13. ASSUME NEW c \in Clients, NEW k \in Kinds, AuthorizeEvaluation(c, k)
      PROVE  RevocationPending'
  BY <1>13 DEF AuthorizeEvaluation, Creating, NewDevice, Goto, memory, polar, world
<1>14. ASSUME CreateRefused PROVE RevocationPending'
  BY <1>14 DEF CreateRefused, Goto, memory, files, polar, world
<1>15. ASSUME CreateInDriver PROVE RevocationPending'
  <2>1. Licensed(driver') \subseteq Licensed(driver) \cup Licensed({job})
    BY <1>15 DEF CreateInDriver, Licensed
  <2>2. Licensed({job}) # {} => license # None \/ revoke
    BY <1>15 DEF CreateInDriver, Licensed, JobCovered, Making
  <2>3. UNCHANGED <<license, revoke, reconciled>> /\ Running
    BY <1>15 DEF CreateInDriver, memory, Running, TypeOK
  <2>4. QED
    BY <2>1, <2>2, <2>3
<1>16. ASSUME CreateFails PROVE RevocationPending'
  BY <1>16 DEF CreateFails, Goto, memory, files, polar, world
<1>17. ASSUME Register PROVE RevocationPending'
  BY <1>17 DEF Register, Goto, files, polar, world
<1>18. ASSUME ValidationDue PROVE RevocationPending'
  BY <1>18 DEF ValidationDue, Goto, files, polar, world
<1>19. ASSUME NEW t \in Threads, BeginWithoutLicence(t) PROVE RevocationPending'
  BY <1>19 DEF BeginWithoutLicence, Finish, memory, files, polar, world, Goto, After
<1>20. ASSUME NEW t \in Threads, BeginCall(t) PROVE RevocationPending'
  BY <1>20 DEF BeginCall, Goto, memory, files, polar, world
<1>21. ASSUME NEW t \in Threads, BeginRecord(t) PROVE RevocationPending'
  <2>1. license' # None
    BY <1>21, RecordFits, OneMore, LicenceFields DEF BeginRecord
  <2>2. QED
    BY <2>1
<1>22. ASSUME NEW t \in Threads, CallFails(t) PROVE RevocationPending'
  BY <1>22 DEF CallFails, Unavailable, Finish, files, world, Goto, After,
    MarkUnavailable
<1>23. ASSUME NEW t \in Threads, ActivationRefused(t) PROVE RevocationPending'
  BY <1>23 DEF ActivationRefused, Finish, memory, files, polar, world, Goto, After
<1>24. ASSUME NEW t \in Threads, Denied(t) PROVE RevocationPending'
  BY <1>24 DEF Denied, ForgetLicence, Goto, files, polar, world
<1>25. ASSUME NEW t \in Threads, Deactivated(t) PROVE RevocationPending'
  BY <1>25 DEF Deactivated, Goto, memory, world
<1>26. ASSUME NEW t \in Threads, Validated(t) PROVE RevocationPending'
  BY <1>26 DEF Validated, Goto, memory, files, world
<1>27. ASSUME NEW t \in Threads, NEW k \in Keys, Activated(t, k) PROVE RevocationPending'
  BY <1>27 DEF Activated, Goto, memory, files, world
<1>28. ASSUME NEW t \in Threads, NEW ok \in BOOLEAN, DeleteFile(t, ok)
      PROVE  RevocationPending'
  BY <1>28 DEF DeleteFile, Finish, memory, polar, world, Goto, After
<1>29. ASSUME NEW t \in Threads, ResetAfterDelete(t) PROVE RevocationPending'
  BY <1>29 DEF ResetAfterDelete, ForgetLicence, Finish, files, polar, world, Goto,
    After
<1>30. ASSUME NEW t \in Threads, OpenFile(t) PROVE RevocationPending'
  BY <1>30 DEF OpenFile, Goto, memory, polar, world
<1>31. ASSUME NEW t \in Threads, SaveFails(t) PROVE RevocationPending'
  BY <1>31 DEF SaveFails, Unavailable, Finish, files, polar, world, Goto, After,
    MarkUnavailable
<1>32. ASSUME NEW t \in Threads, WriteFile(t) PROVE RevocationPending'
  BY <1>32 DEF WriteFile, Goto, memory, polar, world
<1>33. ASSUME NEW t \in Threads, CommitRecord(t) PROVE RevocationPending'
  BY <1>33 DEF CommitRecord, Finish, memory, files, polar, world, Goto, After
<1>34. ASSUME NEW t \in Threads, Commit(t) PROVE RevocationPending'
  <2>1. license' = draft /\ draft # None
    BY <1>34, LicenceFields DEF Commit, ThreadInv, Saving
  <2>2. QED
    BY <2>1
<1>35. ASSUME NEW t \in Threads, Schedule(t) PROVE RevocationPending'
  BY <1>35 DEF Schedule, Goto, files, polar, world
<1>36. ASSUME TimerFires PROVE RevocationPending'
  BY <1>36 DEF TimerFires, Running, thread, files, polar, world
<1>37. ASSUME HourPasses PROVE RevocationPending'
  BY <1>37 DEF HourPasses, Running, thread, files, polar, world
<1>38. ASSUME ValidationLapses PROVE RevocationPending'
  <2>1. license' # None <=> license # None
    BY <1>38, LicenceFields, Aging DEF ValidationLapses, Lapse, TypeOK
  <2>2. UNCHANGED <<pc, driver, revoke, reconciled>>
    BY <1>38 DEF ValidationLapses, thread, world
  <2>3. QED
    BY <2>1, <2>2 DEF Running, Licensed
<1>39. ASSUME WindowCloses PROVE RevocationPending'
  BY <1>39 DEF WindowCloses, memory, thread, polar, world
<1>40. ASSUME NEW a \in granted, PolarRevokes(a) PROVE RevocationPending'
  BY <1>40 DEF PolarRevokes, memory, thread, files, world
<1>41. ASSUME NEW c \in alive, ClientDies(c) PROVE RevocationPending'
  BY <1>41 DEF ClientDies, memory, thread, files, polar
<1>42. ASSUME BrokerDies PROVE RevocationPending'
  BY <1>42 DEF BrokerDies, Running, ProcessEnds, files, polar, Threads
<1>43. ASSUME WindowsRestarts PROVE RevocationPending'
  BY <1>43 DEF WindowsRestarts, ProcessEnds, polar, Threads
<1>44. CASE UNCHANGED vars
  BY <1>44 DEF vars, memory, thread, files, polar, world
<1> HIDE DEF RevocationPending
<1>45. QED
  BY <1>1, <1>2, <1>3, <1>4, <1>5, <1>6, <1>7, <1>8, <1>9, <1>10, <1>11, <1>12,
    <1>13, <1>14, <1>15, <1>16, <1>17, <1>18, <1>19, <1>20, <1>21, <1>22, <1>23,
    <1>24, <1>25, <1>26, <1>27, <1>28, <1>29, <1>30, <1>31, <1>32, <1>33, <1>34,
    <1>35, <1>36, <1>37, <1>38, <1>39, <1>40, <1>41, <1>42, <1>43, <1>44 DEF Next,
    Cleanup, Requests, Creation, LicenceStep, Environment

\* A validation comes before devices.
LEMMA RebootNext ==
  ASSUME TypeOK, ThreadInv, CountInv, DraftInv, JobCovered, RebootNeedsValidation,
         [Next]_vars
  PROVE  RebootNeedsValidation'
<1> USE DEF RebootNeedsValidation, Licensed
<1>1. ASSUME Start PROVE RebootNeedsValidation'
  <2>1. devices' = {}
    BY <1>1 DEF Start
  <2>2. QED
    BY <2>1 DEF Licensed
<1>2. ASSUME NEW ok \in BOOLEAN, Construct(ok) PROVE RebootNeedsValidation'
  BY <1>2 DEF Construct, ResetDevices, Goto, files, polar
<1>3. ASSUME NEW ok \in BOOLEAN, Reconcile(ok) PROVE RebootNeedsValidation'
  BY <1>3 DEF Reconcile, ResetDevices, Goto, files, polar
<1>4. ASSUME CleanupSelect PROVE RebootNeedsValidation'
  BY <1>4 DEF CleanupSelect, Goto, files, polar, world
<1>5. ASSUME CleanupFinish PROVE RebootNeedsValidation'
  BY <1>5 DEF CleanupFinish, Licensed, Goto, files, polar, world
<1>6. ASSUME NEW d \in cleanup, CleanupDestroy(d) PROVE RebootNeedsValidation'
  BY <1>6 DEF CleanupDestroy, Destroy, files, polar
<1>7. ASSUME NEW d \in cleanup, CleanupFails(d) PROVE RebootNeedsValidation'
  BY <1>7 DEF CleanupFails, memory, files, polar, world
<1>8. ASSUME NoRequest PROVE RebootNeedsValidation'
  BY <1>8 DEF NoRequest, Goto, memory, files, polar, world
<1>9. ASSUME NEW o \in {"validate", "activate", "deactivate"}, RequestLicense(o)
      PROVE  RebootNeedsValidation'
  BY <1>9 DEF RequestLicense, Goto, memory, files, polar, world
<1>10. ASSUME NEW ok \in BOOLEAN, CreateReconcile(ok) PROVE RebootNeedsValidation'
  BY <1>10 DEF CreateReconcile, ResetDevices, Goto, files, polar
<1>11. ASSUME NEW d \in devices, DestroyDevice(d) PROVE RebootNeedsValidation'
  BY <1>11 DEF DestroyDevice, Destroy, Goto, files, polar
<1>12. ASSUME NEW c \in Clients, NEW k \in Kinds, Authorize(c, k)
      PROVE  RebootNeedsValidation'
  BY <1>12 DEF Authorize, Creating, Licensed, NewDevice, Goto, memory, files, polar,
    world
<1>13. ASSUME NEW c \in Clients, NEW k \in Kinds, AuthorizeEvaluation(c, k)
      PROVE  RebootNeedsValidation'
  BY <1>13 DEF AuthorizeEvaluation, Creating, NewDevice, Goto, memory, polar, world
<1>14. ASSUME CreateRefused PROVE RebootNeedsValidation'
  BY <1>14 DEF CreateRefused, Goto, memory, files, polar, world
<1>15. ASSUME CreateInDriver PROVE RebootNeedsValidation'
  BY <1>15 DEF CreateInDriver, Goto, memory, files, polar
<1>16. ASSUME CreateFails PROVE RebootNeedsValidation'
  BY <1>16 DEF CreateFails, Goto, memory, files, polar, world
<1>17. ASSUME Register PROVE RebootNeedsValidation'
  <2>1. UNCHANGED license /\ devices' = devices \cup {job}
    BY <1>17 DEF Register
  <2>2. license # None /\ license.key \in Yearly /\ license.age = "unknown" =>
          Licensed({job}) = {}
    BY <1>17 DEF Register, JobCovered, Making, Licensed
  <2>3. QED
    BY <2>1, <2>2 DEF Licensed
<1>18. ASSUME ValidationDue PROVE RebootNeedsValidation'
  BY <1>18 DEF ValidationDue, Goto, files, polar, world
<1>19. ASSUME NEW t \in Threads, BeginWithoutLicence(t) PROVE RebootNeedsValidation'
  BY <1>19 DEF BeginWithoutLicence, Finish, memory, files, polar, world, Goto, After
<1>20. ASSUME NEW t \in Threads, BeginCall(t) PROVE RebootNeedsValidation'
  BY <1>20 DEF BeginCall, Goto, memory, files, polar, world
<1>21. ASSUME NEW t \in Threads, BeginRecord(t) PROVE RebootNeedsValidation'
  <2>1. license \in Licences /\ license.pending < MaxDevices
    BY <1>21, RecordFits
  <2>2. license' = [license EXCEPT !.pending = @ + 1] /\ devices' = devices
    BY <1>21 DEF BeginRecord
  <2>3. license # None /\ license'.key = license.key /\ license'.age = license.age
    BY <2>1, <2>2, OneMore, LicenceFields
  <2>4. QED
    BY <2>2, <2>3 DEF Licensed
<1>22. ASSUME NEW t \in Threads, CallFails(t) PROVE RebootNeedsValidation'
  BY <1>22 DEF CallFails, Unavailable, Finish, files, world, Goto, After,
    MarkUnavailable
<1>23. ASSUME NEW t \in Threads, ActivationRefused(t) PROVE RebootNeedsValidation'
  BY <1>23 DEF ActivationRefused, Finish, memory, files, polar, world, Goto, After
<1>24. ASSUME NEW t \in Threads, Denied(t) PROVE RebootNeedsValidation'
  BY <1>24 DEF Denied, ForgetLicence, Goto, files, polar, world
<1>25. ASSUME NEW t \in Threads, Deactivated(t) PROVE RebootNeedsValidation'
  BY <1>25 DEF Deactivated, Goto, memory, world
<1>26. ASSUME NEW t \in Threads, Validated(t) PROVE RebootNeedsValidation'
  BY <1>26 DEF Validated, Goto, memory, files, world
<1>27. ASSUME NEW t \in Threads, NEW k \in Keys, Activated(t, k)
      PROVE  RebootNeedsValidation'
  BY <1>27 DEF Activated, Goto, memory, files, world
<1>28. ASSUME NEW t \in Threads, NEW ok \in BOOLEAN, DeleteFile(t, ok)
      PROVE  RebootNeedsValidation'
  BY <1>28 DEF DeleteFile, Finish, memory, polar, world, Goto, After
<1>29. ASSUME NEW t \in Threads, ResetAfterDelete(t) PROVE RebootNeedsValidation'
  BY <1>29 DEF ResetAfterDelete, ForgetLicence, Finish, files, polar, world, Goto,
    After
<1>30. ASSUME NEW t \in Threads, OpenFile(t) PROVE RebootNeedsValidation'
  BY <1>30 DEF OpenFile, Goto, memory, polar, world
<1>31. ASSUME NEW t \in Threads, SaveFails(t) PROVE RebootNeedsValidation'
  BY <1>31 DEF SaveFails, Unavailable, Finish, files, polar, world, Goto, After,
    MarkUnavailable
<1>32. ASSUME NEW t \in Threads, WriteFile(t) PROVE RebootNeedsValidation'
  BY <1>32 DEF WriteFile, Goto, memory, polar, world
<1>33. ASSUME NEW t \in Threads, CommitRecord(t) PROVE RebootNeedsValidation'
  BY <1>33 DEF CommitRecord, Finish, memory, files, polar, world, Goto, After
<1>34. ASSUME NEW t \in Threads, Commit(t) PROVE RebootNeedsValidation'
  <2>1. license' = draft /\ draft.age = "current"
    BY <1>34 DEF Commit, DraftInv, Saving
  <2>2. QED
    BY <2>1
<1>35. ASSUME NEW t \in Threads, Schedule(t) PROVE RebootNeedsValidation'
  BY <1>35 DEF Schedule, Goto, files, polar, world
<1>36. ASSUME TimerFires PROVE RebootNeedsValidation'
  BY <1>36 DEF TimerFires, thread, files, polar, world
<1>37. ASSUME HourPasses PROVE RebootNeedsValidation'
  BY <1>37 DEF HourPasses, thread, files, polar, world
<1>38. ASSUME ValidationLapses PROVE RebootNeedsValidation'
  <2>1. license' # None => license # None
    BY <1>38, LicenceFields, Aging DEF ValidationLapses, Lapse, TypeOK
  <2>2. license # None => license'.key = license.key /\ license'.age \in {license.age, "lapsed"}
    BY <1>38, Aging DEF ValidationLapses, TypeOK
  <2>3. devices' = devices
    BY <1>38 DEF ValidationLapses
  <2>4. QED
    BY <2>1, <2>2, <2>3 DEF Licensed
<1>39. ASSUME WindowCloses PROVE RebootNeedsValidation'
  BY <1>39 DEF WindowCloses, memory, thread, polar, world
<1>40. ASSUME NEW a \in granted, PolarRevokes(a) PROVE RebootNeedsValidation'
  BY <1>40 DEF PolarRevokes, memory, thread, files, world
<1>41. ASSUME NEW c \in alive, ClientDies(c) PROVE RebootNeedsValidation'
  BY <1>41 DEF ClientDies, memory, thread, files, polar
<1>42. ASSUME BrokerDies PROVE RebootNeedsValidation'
  BY <1>42 DEF BrokerDies, ProcessEnds, files, polar
<1>43. ASSUME WindowsRestarts PROVE RebootNeedsValidation'
  BY <1>43 DEF WindowsRestarts, ProcessEnds, polar
<1>44. CASE UNCHANGED vars
  BY <1>44 DEF vars, memory, thread, files, polar, world
<1> HIDE DEF RebootNeedsValidation
<1>45. QED
  BY <1>1, <1>2, <1>3, <1>4, <1>5, <1>6, <1>7, <1>8, <1>9, <1>10, <1>11, <1>12,
    <1>13, <1>14, <1>15, <1>16, <1>17, <1>18, <1>19, <1>20, <1>21, <1>22, <1>23,
    <1>24, <1>25, <1>26, <1>27, <1>28, <1>29, <1>30, <1>31, <1>32, <1>33, <1>34,
    <1>35, <1>36, <1>37, <1>38, <1>39, <1>40, <1>41, <1>42, <1>43, <1>44 DEF Next,
    Cleanup, Requests, Creation, LicenceStep, Environment

-----------------------------------------------------------------------------
(* The inductive invariant and what follows from it.                         *)

LEMMA InvariantInit == Init => IInv
<1> SUFFICES ASSUME Init PROVE IInv
  OBVIOUS
<1> USE DEF Init
<1>1. StateTypes /\ LicenceTypes /\ DeviceTypes /\ UsageTypes
  <2>1. StateTypes /\ LicenceTypes
    BY BrokerAssumption DEF StateTypes, LicenceTypes, Threads, Labels, Operations
  <2>2. DeviceTypes /\ UsageTypes
    BY BrokerAssumption DEF DeviceTypes, UsageTypes
  <2>3. QED
    BY <2>1, <2>2
<1>2. ThreadInv /\ JobInv /\ DraftInv /\ JobCovered
  BY DEF ThreadInv, JobInv, DraftInv, JobCovered, Threads, Holding, Saving, Making,
    ValidatorLabels
<1>3. CountInv
  BY NoneIsNoLicence DEF CountInv, Uncounted, Threads
<1>4. DriverDevicesTracked /\ LicensedDevicesAreCovered /\ UsageNotLost
  BY DEF DriverDevicesTracked, LicensedDevicesAreCovered, RevocationPending,
    RebootNeedsValidation, UsageNotLost, Running, Threads
<1>5. QED
  BY <1>1, <1>2, <1>3, <1>4, Parts DEF IInv

\* Every reachable state satisfies the inductive invariant.  The types of licences need
\* that no usage is made up, the usage that a thread with the mutex works on the licence it
\* started from, and a removed licence that a device on its way is covered.
THEOREM Invariance == Spec => []IInv
<1>1. ASSUME IInv, [Next]_vars PROVE IInv'
  <2>1. StateTypes' /\ LicenceTypes' /\ DeviceTypes' /\ UsageTypes'
    BY <1>1, Parts, StateTypesNext, LicenceTypesNext, DeviceTypesNext, UsageTypesNext
      DEF IInv
  <2>2. TypeOK'
    BY <2>1 DEF TypeOK, StateTypes, LicenceTypes, DeviceTypes, UsageTypes
  <2>3. QED
    BY <1>1, <2>2, ThreadInvNext, JobInvNext, CountInvNext, DraftInvNext, JobCoveredNext,
      TrackedNext, RevocationNext, RebootNext, UsageNext DEF IInv, LicensedDevicesAreCovered
<1>2. QED
  BY InvariantInit, <1>1, PTL DEF Spec

\* Licence state, files, threads, devices and usage keep their types, the numbers their
\* bounds, whatever clients, the driver, Polar, time and restarts do.
THEOREM BrokerTypeCorrect == Spec => []TypeOK
<1>1. IInv => TypeOK
  BY DEF IInv
<1>2. QED
  BY <1>1, Invariance, PTL

\* The broker always has a record of every device that exists, so that it can destroy it:
\* failed destructions, creations, the death of clients and restarts leave none behind
\* (cleanup_devices(), handle_create() and handle_destroy() of libvirtualhid_broker.cpp).
THEOREM NoDeviceForgotten == Spec => []DriverDevicesTracked
<1>1. IInv => DriverDevicesTracked
  BY DEF IInv
<1>2. QED
  BY <1>1, Invariance, PTL

\* Licensed devices exist only under a licence, or with the order to remove them out, and
\* after a restart of Windows under a validated one, though the validation thread may lose
\* the licence while the service thread is making a device.
THEOREM NoDeviceUncovered == Spec => []LicensedDevicesAreCovered
<1>1. IInv => LicensedDevicesAreCovered
  BY DEF IInv
<1>2. QED
  BY <1>1, Invariance, PTL

\* No recorded gamepad is lost between the thread that records it and the thread that
\* reports usage to Polar, whatever fails in between.
THEOREM NoUsageLost == Spec => []UsageNotLost
<1>1. IInv => UsageNotLost
  BY DEF IInv
<1>2. QED
  BY <1>1, Invariance, PTL

-----------------------------------------------------------------------------
(* The licence manager of macOS.                                             *)

\* A licence with a count that has no bound yet.
AnyLicence == [key : MacosKeys, pending : Nat] \cup {Macos!NoLicence}
Callers == Sessions \cup {"start", "timer", "client"}
MacosOperations ==
  [kind : {"validate", "activate", "deactivate", "count"}, by : Callers,
   at : {"save", "commit", "delete"}, copy : AnyLicence]
Places == {"idle", "authorized", "counted", "serving", "ending"}
SessionTypes == [at : Places, key : MacosKeys \cup {None}, offline : BOOLEAN]

\* The gamepads of the licence that are served, and those that are still being made.
Made == {s \in Sessions : Macos!Serving(s) /\ Macos!ByLicence(s)}
Promised == {s \in Sessions : Macos!At(s) = "authorized" /\ Macos!ByLicence(s)}

ClockTypes ==
  /\ age \in {"none", "fresh", "due", "lapsed"} /\ macosOutage \in {"none", "recent", "long"}
  /\ evaluation \in {"never", "unused", "open", "over"} /\ retained \in Sessions \cup {None}
  /\ validator \in {"starting", "sleeping", "due"}
  /\ macosOnline \in BOOLEAN /\ unsaved \in BOOLEAN /\ undeleted \in BOOLEAN /\ unguarded \in BOOLEAN

MacosStateTypes ==
  /\ licence \in AnyLicence /\ file \in AnyLicence
  /\ operation \in MacosOperations \cup {Macos!NoOp}
  /\ sessions \in [Sessions -> SessionTypes]
  /\ owed \in Nat /\ gamepads \in 0..MacosDevices

\* What a session knows of its gamepad, and which one is being counted.
SessionInv ==
  \A s \in Sessions :
    /\ Macos!At(s) = "idle" => sessions[s] = Macos!Idle
    /\ sessions[s].offline => Macos!ByLicence(s)
    /\ Macos!At(s) = "counted" <=> operation.kind = "count" /\ operation.by = s

\* active_licensed_devices_ is what it is called, and there is no more usage than gamepads.
MacosCountInv ==
  /\ IsFiniteSet(Made) /\ licensed = Cardinality(Made) /\ IsFiniteSet(Promised)
  /\ licensed + Cardinality(Promised) <= gamepads
  /\ licence.pending + Cardinality(Promised) <= gamepads
  /\ file.pending + Cardinality(Promised) <= gamepads
  /\ operation # Macos!NoOp => operation.copy.pending + Cardinality(Promised) <= gamepads

\* What an operation is about to write still fits the licence in memory.
OperationInv ==
  /\ operation.kind = "count" =>
       operation.copy = licence /\ Macos!Has(licence) /\ owed < licence.pending /\ operation.at = "save"
  /\ operation.kind = "validate" =>
       /\ owed = 0
       /\ operation.at = "delete" => operation.copy = Macos!NoLicence /\ licence = Macos!NoLicence
       /\ operation.at # "delete" => Macos!Has(licence) /\ operation.copy = [licence EXCEPT !.pending = 0]
  /\ operation.kind = "activate" =>
       /\ operation.at # "delete" /\ operation.copy.key \in MacosKeys
       /\ operation.copy.key = licence.key => operation.copy.pending = licence.pending
  /\ operation.kind = "deactivate" => operation.at # "save" /\ operation.copy = Macos!NoLicence

\* The file is what the operation under way found, or what it has written.
FileInv ==
  ~unsaved /\ ~undeleted /\ ~unguarded =>
    /\ operation = Macos!NoOp => file = licence
    /\ operation.kind \in {"validate", "activate"} /\ operation.at = "save" => file = licence
    /\ operation.kind \in {"validate", "activate", "deactivate"} /\ operation.at = "commit" =>
         file = operation.copy

UsageInv ==
  /\ owed <= licence.pending
  /\ Macos!Has(file) /\ file.key = licence.key /\ ~unsaved => owed <= file.pending

LicenceInv ==
  /\ ClockTypes /\ MacosStateTypes /\ SessionInv /\ MacosCountInv /\ OperationInv /\ FileInv
  /\ UsageInv

-----------------------------------------------------------------------------
(* Licences, operations and sessions.                                        *)

LEMMA MacosLicenceFields ==
  ASSUME Macos!LicenseAssumption, NEW l \in AnyLicence
  PROVE  /\ l.key \in MacosKeys \cup {None} /\ l.pending \in Nat
         /\ Macos!Has(l) <=> l.key \in MacosKeys
         /\ Macos!Has(l) <=> l.key # None
         /\ ~Macos!Has(l) => l.pending = 0
         /\ [l EXCEPT !.pending = 0].key = l.key /\ [l EXCEPT !.pending = 0].pending = 0
         /\ [l EXCEPT !.pending = @ + 1].key = l.key
         /\ [l EXCEPT !.pending = @ + 1].pending = l.pending + 1
         /\ Macos!Has(l) => /\ [l EXCEPT !.pending = 0] \in AnyLicence
                      /\ [l EXCEPT !.pending = @ + 1] \in AnyLicence
BY DEF AnyLicence, Macos!NoLicence, Macos!LicenseAssumption, Macos!Has

LEMMA OperationFields ==
  ASSUME NEW o \in MacosOperations \cup {Macos!NoOp}
  PROVE  /\ o = Macos!NoOp <=> o.kind = "none"
         /\ o # Macos!NoOp => /\ o.kind \in {"validate", "activate", "deactivate", "count"}
                        /\ o.by \in Callers /\ o.at \in {"save", "commit", "delete"}
                        /\ o.copy \in AnyLicence
BY DEF MacosOperations, Macos!NoOp

\* A new operation.
LEMMA Beginning ==
  ASSUME NEW kind \in {"validate", "activate", "deactivate", "count"}, NEW by \in Callers,
         NEW at \in {"save", "commit", "delete"}, NEW l \in AnyLicence,
         Macos!Begins(kind, by, at, l)
  PROVE  /\ operation' \in MacosOperations /\ operation' # Macos!NoOp
         /\ operation'.kind = kind /\ operation'.by = by /\ operation'.at = at /\ operation'.copy = l
BY DEF Macos!Begins, MacosOperations, Macos!NoOp

\* One that has written its copy.
LEMMA Written ==
  ASSUME operation \in MacosOperations
  PROVE  LET o == [operation EXCEPT !.at = "commit"] IN
           /\ o \in MacosOperations /\ o # Macos!NoOp
           /\ o.kind = operation.kind /\ o.by = operation.by /\ o.at = "commit" /\ o.copy = operation.copy
BY DEF MacosOperations, Macos!NoOp

LEMMA NothingUnderWay ==
  Macos!NoOp \notin MacosOperations /\ Macos!NoOp.kind = "none" /\ Macos!NoLicence \in AnyLicence
  /\ Macos!NoLicence.key = None /\ Macos!NoLicence.pending = 0
BY DEF Macos!NoOp, Macos!NoLicence, AnyLicence, MacosOperations
\* A session that moves on with its gamepad.
LEMMA Moving ==
  ASSUME sessions \in [Sessions -> SessionTypes], NEW s \in Sessions, NEW place \in Places,
         Macos!Goto(s, place)
  PROVE  /\ sessions' \in [Sessions -> SessionTypes]
         /\ Macos!At(s)' = place /\ Macos!ByLicence(s)' = Macos!ByLicence(s)
         /\ sessions'[s].key = sessions[s].key /\ sessions'[s].offline = sessions[s].offline
         /\ \A u \in Sessions \ {s} : sessions'[u] = sessions[u]
<1>1. sessions' = [sessions EXCEPT ![s] = [@ EXCEPT !.at = place]]
  BY DEF Macos!Goto
<1>2. [sessions[s] EXCEPT !.at = place] \in SessionTypes
  BY DEF SessionTypes
<1>3. sessions'[s] = [sessions[s] EXCEPT !.at = place]
  BY <1>1
<1>4. QED
  BY <1>1, <1>2, <1>3 DEF Macos!At, Macos!ByLicence, SessionTypes

\* A session that begins or ends.
LEMMA Turning ==
  ASSUME sessions \in [Sessions -> SessionTypes], NEW s \in Sessions, NEW place \in Places,
         NEW key \in MacosKeys \cup {None}, NEW offline \in BOOLEAN,
         sessions' = [sessions EXCEPT ![s] = Macos!Session(place, key, offline)]
  PROVE  /\ sessions' \in [Sessions -> SessionTypes]
         /\ Macos!At(s)' = place /\ (Macos!ByLicence(s)' <=> key # None)
         /\ sessions'[s] = Macos!Session(place, key, offline)
         /\ sessions'[s].offline = offline
         /\ \A u \in Sessions \ {s} : sessions'[u] = sessions[u]
<1>1. Macos!Session(place, key, offline) \in SessionTypes
  BY DEF SessionTypes, Macos!Session
<1>2. QED
  BY <1>1 DEF Macos!At, Macos!ByLicence, Macos!Session

\* Flags and times keep their types.
LEMMA ClockTypesNext ==
  ASSUME Macos!LicenseAssumption, ClockTypes,
         [Macos!Next]_Macos!vars
  PROVE  ClockTypes'
<1> USE DEF ClockTypes
<1>1. ASSUME NEW s \in Sessions, Macos!Authorize(s) PROVE ClockTypes'
  BY <1>1 DEF Macos!Authorize, Macos!memoryVars, Macos!historyVars
<1>2. ASSUME NEW s \in Sessions, Macos!AuthorizeEvaluation(s) PROVE ClockTypes'
  BY <1>2 DEF Macos!AuthorizeEvaluation, Macos!historyVars
<1>3. ASSUME NEW s \in Sessions, Macos!CreateFails(s) PROVE ClockTypes'
  BY <1>3 DEF Macos!CreateFails, Macos!memoryVars, Macos!boundVars, Macos!historyVars
<1>4. ASSUME NEW s \in Sessions, Macos!AddDevice(s) PROVE ClockTypes'
  BY <1>4 DEF Macos!AddDevice, Macos!Goto, Macos!boundVars, Macos!historyVars
<1>5. ASSUME NEW s \in Sessions, Macos!SaveCount(s) PROVE ClockTypes'
  BY <1>5 DEF Macos!SaveCount, Macos!Goto, Macos!memoryVars, Macos!boundVars
<1>6. ASSUME NEW s \in Sessions, Macos!Poll(s) PROVE ClockTypes'
  BY <1>6 DEF Macos!Poll, Macos!Goto, Macos!boundVars, Macos!historyVars
<1>7. ASSUME NEW s \in Sessions, Macos!RemoveDevice(s) PROVE ClockTypes'
  BY <1>7 DEF Macos!RemoveDevice, Macos!boundVars, Macos!historyVars
<1>8. ASSUME NEW s \in Sessions, Macos!ClientEnds(s) PROVE ClockTypes'
  BY <1>8 DEF Macos!ClientEnds, Macos!Goto, Macos!memoryVars, Macos!boundVars, Macos!historyVars
<1>9. ASSUME Macos!Save PROVE ClockTypes'
  BY <1>9 DEF Macos!Save, Macos!memoryVars, Macos!boundVars
<1>10. ASSUME Macos!Commit PROVE ClockTypes'
  BY <1>10 DEF Macos!Commit, Macos!boundVars
<1>11. ASSUME Macos!DeleteFile PROVE ClockTypes'
  BY <1>11 DEF Macos!DeleteFile, Macos!memoryVars, Macos!boundVars
<1>12. ASSUME Macos!Deactivated PROVE ClockTypes'
  BY <1>12 DEF Macos!Deactivated, Macos!boundVars
<1>13. ASSUME Macos!RequestValidate PROVE ClockTypes'
  BY <1>13 DEF Macos!RequestValidate, Macos!Requested, Macos!Validate, Macos!ValidationFails,
    Macos!ValidationRefused, Macos!ValidationGranted, Macos!BeginOutage
<1>14. ASSUME Macos!RequestDeactivate PROVE ClockTypes'
  BY <1>14 DEF Macos!RequestDeactivate, Macos!Requested, Macos!memoryVars, Macos!historyVars
<1>15. ASSUME NEW key \in MacosKeys, Macos!RequestActivate(key) PROVE ClockTypes'
  BY <1>15 DEF Macos!RequestActivate, Macos!Requested, Macos!memoryVars, Macos!historyVars
<1>16. ASSUME Macos!Wake PROVE ClockTypes'
  BY <1>16 DEF Macos!Wake, Macos!memoryVars, Macos!boundVars, Macos!historyVars
<1>17. ASSUME Macos!ValidatorRuns PROVE ClockTypes'
  BY <1>17 DEF Macos!ValidatorRuns, Macos!Validate, Macos!memoryVars, Macos!boundVars,
    Macos!historyVars,
    Macos!ValidationFails, Macos!ValidationRefused, Macos!ValidationGranted, Macos!BeginOutage
<1>18. ASSUME Macos!Restart PROVE ClockTypes'
  BY <1>18 DEF Macos!Restart
<1>19. ASSUME Macos!TimePasses PROVE ClockTypes'
  BY <1>19 DEF Macos!TimePasses, Macos!boundVars, Macos!historyVars
<1>20. CASE UNCHANGED Macos!vars
  BY <1>20 DEF Macos!vars, Macos!memoryVars, Macos!boundVars, Macos!historyVars
<1> HIDE DEF ClockTypes
<1>21. QED
  BY <1>1, <1>2, <1>3, <1>4, <1>5, <1>6, <1>7, <1>8, <1>9, <1>10, <1>11, <1>12,
    <1>13, <1>14, <1>15, <1>16, <1>17, <1>18, <1>19, <1>20 DEF Macos!Next, Macos!Served,
    Macos!Operation

\* Licences, operations and sessions keep their types.
LEMMA MacosStateTypesNext ==
  ASSUME Macos!LicenseAssumption, ClockTypes, MacosStateTypes, SessionInv,
         [Macos!Next]_Macos!vars
  PROVE  MacosStateTypes'
<1> USE DEF MacosStateTypes
<1>1. ASSUME NEW by \in Callers, Macos!Validate(by) PROVE MacosStateTypes'
  <2>1. licence \in AnyLicence /\ licence' \in AnyLicence /\ owed' \in Nat
        /\ operation' \in MacosOperations \cup {Macos!NoOp}
    <3>1. CASE Macos!ValidationFails
      BY <1>1, <3>1 DEF Macos!Validate, Macos!ValidationFails
    <3>2. CASE Macos!ValidationRefused(by)
      BY <3>2, NothingUnderWay, Beginning DEF Macos!ValidationRefused
    <3>3. CASE Macos!ValidationGranted(by)
      <4>1. /\ licence.pending \in Nat /\ [licence EXCEPT !.pending = 0] \in AnyLicence
            /\ Macos!Begins("validate", by, "save", [licence EXCEPT !.pending = 0])
        BY <1>1, <3>3, MacosLicenceFields DEF Macos!Validate, Macos!ValidationGranted
      <4>2. operation' \in MacosOperations
        BY <4>1, Beginning
      <4>3. QED
        BY <3>3, <4>1, <4>2 DEF Macos!ValidationGranted
    <3>4. QED
      BY <1>1, <3>1, <3>2, <3>3 DEF Macos!Validate
  <2>2. QED
    BY <1>1, <2>1 DEF Macos!Validate
<1>2. ASSUME NEW s \in Sessions, Macos!Authorize(s) PROVE MacosStateTypes'
  <2>1. licence.key \in MacosKeys /\ "authorized" \in Places
    BY <1>2, MacosLicenceFields DEF Macos!Authorize, Macos!Licensed, Places
  <2>2. sessions' \in [Sessions -> SessionTypes]
    BY <1>2, <2>1, Turning, (~macosOnline) \in BOOLEAN DEF Macos!Authorize
  <2>3. QED
    BY <1>2, <2>2 DEF Macos!Authorize, Macos!memoryVars, Macos!historyVars,
      Macos!LicenseAssumption
<1>3. ASSUME NEW s \in Sessions, Macos!AuthorizeEvaluation(s) PROVE MacosStateTypes'
  <2>1. sessions' \in [Sessions -> SessionTypes]
    BY <1>3, Turning DEF Macos!AuthorizeEvaluation, Places
  <2>2. gamepads < MacosDevices /\ gamepads' = gamepads + 1 /\ UNCHANGED <<licence, file, operation, owed>>
    BY <1>3 DEF Macos!AuthorizeEvaluation, Macos!historyVars
  <2>3. QED
    BY <2>1, <2>2 DEF Macos!LicenseAssumption
<1>4. ASSUME NEW s \in Sessions, Macos!CreateFails(s) PROVE MacosStateTypes'
  <2>1. sessions' \in [Sessions -> SessionTypes]
    BY <1>4, Turning DEF Macos!CreateFails, Places, Macos!Idle
  <2>2. QED
    BY <1>4, <2>1 DEF Macos!CreateFails, Macos!memoryVars, Macos!boundVars, Macos!historyVars
<1>5. ASSUME NEW s \in Sessions, Macos!AddDevice(s) PROVE MacosStateTypes'
  <2>1. sessions' \in [Sessions -> SessionTypes]
    BY <1>5, Moving DEF Macos!AddDevice, Places
  <2>2. CASE Macos!ByLicence(s) /\ licence.key = sessions[s].key
    <3>1. licence' = [licence EXCEPT !.pending = @ + 1] /\ licence' \in AnyLicence
      BY <1>5, <2>2, MacosLicenceFields DEF Macos!AddDevice, Macos!ByLicence
    <3>2. operation' \in MacosOperations
      BY <1>5, <2>2, <3>1 DEF Macos!AddDevice, MacosOperations, Callers
    <3>3. QED
      BY <1>5, <2>1, <2>2, <3>1, <3>2 DEF Macos!AddDevice, Macos!boundVars, Macos!historyVars
  <2>3. CASE ~(Macos!ByLicence(s) /\ licence.key = sessions[s].key)
    BY <1>5, <2>1, <2>3 DEF Macos!AddDevice, Macos!boundVars, Macos!historyVars
  <2>4. QED
    BY <2>2, <2>3
<1>6. ASSUME NEW s \in Sessions, Macos!SaveCount(s) PROVE MacosStateTypes'
  <2>1. operation \in MacosOperations
    BY <1>6, OperationFields DEF Macos!SaveCount, SessionInv
  <2>2. sessions' \in [Sessions -> SessionTypes]
    BY <1>6, Moving DEF Macos!SaveCount, Places
  <2>3. QED
    BY <1>6, <2>1, <2>2, OperationFields, NothingUnderWay DEF Macos!SaveCount, Macos!Replaced,
      Macos!memoryVars, Macos!boundVars
<1>7. ASSUME NEW s \in Sessions, Macos!Poll(s) PROVE MacosStateTypes'
  <2>1. sessions' \in [Sessions -> SessionTypes]
    BY <1>7, Moving DEF Macos!Poll, Places
  <2>2. QED
    BY <1>7, <2>1 DEF Macos!Poll, Macos!boundVars, Macos!historyVars
<1>8. ASSUME NEW s \in Sessions, Macos!RemoveDevice(s) PROVE MacosStateTypes'
  <2>1. sessions' \in [Sessions -> SessionTypes]
    BY <1>8, Turning DEF Macos!RemoveDevice, Places, Macos!Idle
  <2>2. QED
    BY <1>8, <2>1 DEF Macos!RemoveDevice, Macos!boundVars, Macos!historyVars
<1>9. ASSUME NEW s \in Sessions, Macos!ClientEnds(s) PROVE MacosStateTypes'
  <2>1. sessions' \in [Sessions -> SessionTypes]
    BY <1>9, Moving DEF Macos!ClientEnds, Places
  <2>2. QED
    BY <1>9, <2>1 DEF Macos!ClientEnds, Macos!memoryVars, Macos!boundVars, Macos!historyVars
<1>10. ASSUME Macos!Save PROVE MacosStateTypes'
  <2>1. /\ operation \in MacosOperations /\ operation.copy \in AnyLicence
        /\ [operation EXCEPT !.at = "commit"] \in MacosOperations
    BY <1>10, OperationFields, Written, NothingUnderWay DEF Macos!Save
  <2>2. QED
    BY <1>10, <2>1, NothingUnderWay DEF Macos!Save, Macos!Replaced, Macos!memoryVars, Macos!boundVars
<1>11. ASSUME Macos!Commit PROVE MacosStateTypes'
  <2>1. operation \in MacosOperations /\ operation.copy \in AnyLicence
    BY <1>11, OperationFields DEF Macos!Commit
  <2>2. QED
    BY <1>11, <2>1 DEF Macos!Commit, Macos!boundVars
<1>12. ASSUME Macos!DeleteFile PROVE MacosStateTypes'
  <2>1. operation \in MacosOperations /\ [operation EXCEPT !.at = "commit"] \in MacosOperations
    BY <1>12, OperationFields, Written, NothingUnderWay DEF Macos!DeleteFile
  <2>2. QED
    BY <1>12, <2>1, NothingUnderWay DEF Macos!DeleteFile, Macos!memoryVars, Macos!boundVars
<1>13. ASSUME Macos!Deactivated PROVE MacosStateTypes'
  BY <1>13, NothingUnderWay DEF Macos!Deactivated, Macos!boundVars
<1>14. ASSUME Macos!RequestValidate PROVE MacosStateTypes'
  BY <1>14, <1>1 DEF Macos!RequestValidate, Callers
<1>15. ASSUME Macos!RequestDeactivate PROVE MacosStateTypes'
  <2>1. operation' \in MacosOperations
    BY <1>15, Beginning, NothingUnderWay DEF Macos!RequestDeactivate, Callers
  <2>2. QED
    BY <1>15, <2>1 DEF Macos!RequestDeactivate, Macos!memoryVars, Macos!historyVars
<1>16. ASSUME NEW key \in MacosKeys, Macos!RequestActivate(key) PROVE MacosStateTypes'
  <2>1. [key |-> key, pending |-> IF licence.key = key THEN licence.pending ELSE 0]
          \in AnyLicence
    BY MacosLicenceFields DEF AnyLicence
  <2>2. operation' \in MacosOperations
    BY <1>16, <2>1, Beginning DEF Macos!RequestActivate, Callers
  <2>3. QED
    BY <1>16, <2>2 DEF Macos!RequestActivate, Macos!memoryVars, Macos!historyVars
<1>17. ASSUME Macos!Wake PROVE MacosStateTypes'
  BY <1>17 DEF Macos!Wake, Macos!memoryVars, Macos!boundVars, Macos!historyVars
<1>18. ASSUME Macos!ValidatorRuns PROVE MacosStateTypes'
  BY <1>18, <1>1 DEF Macos!ValidatorRuns, Callers, Macos!memoryVars, Macos!boundVars,
    Macos!historyVars
<1>19. ASSUME Macos!Restart PROVE MacosStateTypes'
  <2>1. file.pending \in Nat
    BY MacosLicenceFields
  <2>2. Macos!Idle \in SessionTypes
    BY DEF Macos!Idle, Macos!Session, SessionTypes, Places
  <2>3. QED
    BY <1>19, <2>1, <2>2 DEF Macos!Restart
<1>20. ASSUME Macos!TimePasses PROVE MacosStateTypes'
  BY <1>20 DEF Macos!TimePasses, Macos!boundVars, Macos!historyVars
<1>21. CASE UNCHANGED Macos!vars
  BY <1>21 DEF Macos!vars, Macos!memoryVars, Macos!boundVars, Macos!historyVars
<1> HIDE DEF MacosStateTypes
<1>22. QED
  BY <1>2, <1>3, <1>4, <1>5, <1>6, <1>7, <1>8, <1>9, <1>10, <1>11, <1>12, <1>13,
    <1>14, <1>15, <1>16, <1>17, <1>18, <1>19, <1>20, <1>21 DEF Macos!Next, Macos!Served,
    Macos!Operation

\* A session counts its gamepad in an operation of its own.
LEMMA SessionInvNext ==
  ASSUME Macos!LicenseAssumption, MacosStateTypes, SessionInv,
         [Macos!Next]_Macos!vars
  PROVE  SessionInv'
<1> USE DEF SessionInv, Macos!At, Macos!ByLicence, MacosStateTypes
<1>1. ASSUME NEW by \in Callers, Macos!Validate(by) PROVE SessionInv'
  <2>1. /\ operation.kind = "none" /\ operation'.kind \in {"none", "validate"} /\ UNCHANGED sessions
    <3>1. operation = Macos!NoOp /\ UNCHANGED sessions
      BY <1>1 DEF Macos!Validate
    <3>2. CASE Macos!ValidationFails
      BY <3>1, <3>2, NothingUnderWay DEF Macos!ValidationFails
    <3>3. CASE Macos!ValidationRefused(by)
      BY <3>1, <3>3, NothingUnderWay, Beginning DEF Macos!ValidationRefused
    <3>4. CASE Macos!ValidationGranted(by)
      <4>1. [licence EXCEPT !.pending = 0] \in AnyLicence
        BY <1>1, MacosLicenceFields DEF Macos!Validate, MacosStateTypes
      <4>2. QED
        BY <3>1, <3>4, <4>1, NothingUnderWay, Beginning DEF Macos!ValidationGranted
    <3>5. QED
      BY <1>1, <3>1, <3>2, <3>3, <3>4 DEF Macos!Validate
  <2>2. QED
    BY <2>1
<1>2. ASSUME NEW s \in Sessions, Macos!Authorize(s) PROVE SessionInv'
  <2>0. licence.key # None
    BY <1>2, MacosLicenceFields DEF Macos!Authorize, Macos!Licensed
  <2>1. sessions' = [sessions EXCEPT ![s] = Macos!Session("authorized", licence.key, (~macosOnline))]
        /\ Macos!At(s) = "idle" /\ UNCHANGED operation
    BY <1>2 DEF Macos!Authorize, Macos!Licensed, Macos!memoryVars
  <2>2. /\ \A u \in Sessions \ {s} : sessions'[u] = sessions[u]
        /\ sessions'[s].at = "authorized" /\ sessions'[s].key = licence.key
        /\ sessions'[s].offline = (~macosOnline)
    BY <2>1 DEF Macos!Session
  <2>3. QED
    BY <2>0, <2>1, <2>2
<1>3. ASSUME NEW s \in Sessions, Macos!AuthorizeEvaluation(s) PROVE SessionInv'
  <2>1. sessions' = [sessions EXCEPT ![s] = Macos!Session("authorized", None, FALSE)]
        /\ Macos!At(s) = "idle" /\ UNCHANGED operation
    BY <1>3 DEF Macos!AuthorizeEvaluation
  <2>2. /\ \A u \in Sessions \ {s} : sessions'[u] = sessions[u]
        /\ sessions'[s].at = "authorized" /\ sessions'[s].key = None
        /\ sessions'[s].offline = FALSE
    BY <2>1 DEF Macos!Session
  <2>3. QED
    BY <2>1, <2>2
<1>4. ASSUME NEW s \in Sessions, Macos!CreateFails(s) PROVE SessionInv'
  <2>1. sessions' = [sessions EXCEPT ![s] = Macos!Idle]
        /\ Macos!At(s) = "authorized" /\ UNCHANGED operation
    BY <1>4 DEF Macos!CreateFails
  <2>2. /\ \A u \in Sessions \ {s} : sessions'[u] = sessions[u]
        /\ sessions'[s].at = "idle" /\ sessions'[s] = Macos!Idle /\ sessions'[s].offline = FALSE
    BY <2>1 DEF Macos!Session, Macos!Idle
  <2>3. QED
    BY <2>1, <2>2
<1>5. ASSUME NEW s \in Sessions, Macos!AddDevice(s) PROVE SessionInv'
  <2>1. operation.kind = "none" /\ Macos!At(s) = "authorized"
    BY <1>5, NothingUnderWay DEF Macos!AddDevice
  <2>2. CASE Macos!ByLicence(s) /\ licence.key = sessions[s].key
    <3>1. Macos!Goto(s, "counted") /\ operation'.kind = "count" /\ operation'.by = s
      BY <1>5, <2>2 DEF Macos!AddDevice
    <3>2. QED
      BY <2>1, <3>1, Moving DEF Places
  <2>3. CASE ~(Macos!ByLicence(s) /\ licence.key = sessions[s].key)
    <3>1. Macos!Goto(s, "serving") /\ UNCHANGED operation
      BY <1>5, <2>3 DEF Macos!AddDevice
    <3>2. QED
      BY <2>1, <3>1, Moving DEF Places
  <2>4. QED
    BY <2>2, <2>3
<1>6. ASSUME NEW s \in Sessions, Macos!SaveCount(s) PROVE SessionInv'
  <2>1. Macos!Goto(s, "serving") /\ operation'.kind = "none" /\ operation.kind = "count" /\ operation.by = s
    BY <1>6, NothingUnderWay DEF Macos!SaveCount
  <2>2. QED
    BY <2>1, Moving DEF Places
<1>7. ASSUME NEW s \in Sessions, Macos!Poll(s) PROVE SessionInv'
  <2>1. Macos!At(s) = "serving" /\ UNCHANGED operation /\ (Macos!Goto(s, "ending") \/ UNCHANGED sessions)
    BY <1>7 DEF Macos!Poll
  <2>2. QED
    BY <2>1, Moving DEF Places
<1>8. ASSUME NEW s \in Sessions, Macos!RemoveDevice(s) PROVE SessionInv'
  <2>1. sessions' = [sessions EXCEPT ![s] = Macos!Idle]
        /\ Macos!At(s) = "ending" /\ UNCHANGED operation
    BY <1>8 DEF Macos!RemoveDevice
  <2>2. /\ \A u \in Sessions \ {s} : sessions'[u] = sessions[u]
        /\ sessions'[s].at = "idle" /\ sessions'[s] = Macos!Idle /\ sessions'[s].offline = FALSE
    BY <2>1 DEF Macos!Session, Macos!Idle
  <2>3. QED
    BY <2>1, <2>2
<1>9. ASSUME NEW s \in Sessions, Macos!ClientEnds(s) PROVE SessionInv'
  <2>1. Macos!At(s) = "serving" /\ UNCHANGED operation /\ Macos!Goto(s, "ending")
    BY <1>9 DEF Macos!ClientEnds
  <2>2. QED
    BY <2>1, Moving DEF Places
<1>10. ASSUME Macos!Save PROVE SessionInv'
  <2>1. operation.kind # "count" /\ operation'.kind # "count" /\ UNCHANGED sessions
    BY <1>10, NothingUnderWay, OperationFields, Written DEF Macos!Save, MacosStateTypes
  <2>2. QED
    BY <2>1
<1>11. ASSUME Macos!Commit PROVE SessionInv'
  <2>1. operation.kind # "count" /\ operation'.kind # "count" /\ UNCHANGED sessions
    BY <1>11, NothingUnderWay DEF Macos!Commit
  <2>2. QED
    BY <2>1
<1>12. ASSUME Macos!DeleteFile PROVE SessionInv'
  <2>1. operation.kind # "count" /\ operation'.kind # "count" /\ UNCHANGED sessions
    BY <1>12, NothingUnderWay, OperationFields, Written DEF Macos!DeleteFile, MacosStateTypes
  <2>2. QED
    BY <2>1
<1>13. ASSUME Macos!Deactivated PROVE SessionInv'
  <2>1. operation.kind # "count" /\ operation'.kind # "count" /\ UNCHANGED sessions
    BY <1>13, NothingUnderWay DEF Macos!Deactivated
  <2>2. QED
    BY <2>1
<1>14. ASSUME Macos!RequestValidate PROVE SessionInv'
  BY <1>14, <1>1 DEF Macos!RequestValidate, Callers
<1>15. ASSUME Macos!RequestDeactivate PROVE SessionInv'
  <2>1. operation.kind = "none" /\ operation'.kind = "deactivate" /\ UNCHANGED sessions
    BY <1>15, NothingUnderWay DEF Macos!RequestDeactivate, Macos!Begins
  <2>2. QED
    BY <2>1
<1>16. ASSUME NEW key \in MacosKeys, Macos!RequestActivate(key) PROVE SessionInv'
  <2>1. operation.kind = "none" /\ operation'.kind = "activate" /\ UNCHANGED sessions
    BY <1>16, NothingUnderWay DEF Macos!RequestActivate, Macos!Begins
  <2>2. QED
    BY <2>1
<1>17. ASSUME Macos!Wake PROVE SessionInv'
  BY <1>17 DEF Macos!Wake, Macos!memoryVars, Macos!boundVars, Macos!historyVars
<1>18. ASSUME Macos!ValidatorRuns PROVE SessionInv'
  BY <1>18, <1>1 DEF Macos!ValidatorRuns, Callers, Macos!memoryVars, Macos!boundVars,
    Macos!historyVars
<1>19. ASSUME Macos!Restart PROVE SessionInv'
  <2>1. operation'.kind = "none" /\ \A s \in Sessions : sessions'[s] = Macos!Idle
    BY <1>19, NothingUnderWay DEF Macos!Restart
  <2>2. Macos!Idle.at = "idle" /\ Macos!Idle.offline = FALSE
    BY DEF Macos!Idle, Macos!Session
  <2>3. QED
    BY <2>1, <2>2
<1>20. ASSUME Macos!TimePasses PROVE SessionInv'
  BY <1>20 DEF Macos!TimePasses, Macos!boundVars, Macos!historyVars
<1>21. CASE UNCHANGED Macos!vars
  BY <1>21 DEF Macos!vars, Macos!memoryVars, Macos!boundVars, Macos!historyVars
<1> HIDE DEF SessionInv
<1>22. QED
  BY <1>2, <1>3, <1>4, <1>5, <1>6, <1>7, <1>8, <1>9, <1>10, <1>11, <1>12, <1>13,
    <1>14, <1>15, <1>16, <1>17, <1>18, <1>19, <1>20, <1>21 DEF Macos!Next, Macos!Served,
    Macos!Operation

-----------------------------------------------------------------------------
(* The sets of gamepads that are counted.                                    *)

LEMMA Counts ==
  ASSUME Macos!LicenseAssumption, MacosStateTypes, MacosCountInv
  PROVE  /\ Cardinality(Made) \in Nat /\ Cardinality(Promised) \in Nat /\ licensed \in Nat
         /\ licence.pending \in Nat /\ file.pending \in Nat /\ gamepads \in Nat
         /\ operation # Macos!NoOp => operation.copy.pending \in Nat
<1>1. Cardinality(Made) \in Nat /\ Cardinality(Promised) \in Nat
  BY FS_CardinalityType DEF MacosCountInv
<1>2. licence.pending \in Nat /\ file.pending \in Nat
  BY MacosLicenceFields DEF MacosStateTypes
<1>3. operation # Macos!NoOp => operation.copy.pending \in Nat
  BY OperationFields, MacosLicenceFields DEF MacosStateTypes
<1>4. QED
  BY <1>1, <1>2, <1>3 DEF MacosCountInv, MacosStateTypes, Macos!LicenseAssumption

LEMMA SameSets ==
  ASSUME UNCHANGED sessions PROVE Made' = Made /\ Promised' = Promised
BY DEF Made, Promised, Macos!Serving, Macos!ByLicence, Macos!At

\* A session that goes on with its gamepad.
LEMMA MovingSets ==
  ASSUME sessions \in [Sessions -> SessionTypes], NEW s \in Sessions, NEW place \in Places,
         Macos!Goto(s, place)
  PROVE  /\ Macos!At(s) \in {"counted", "serving"} /\ place \in {"serving", "ending"} =>
              Made' = Made /\ Promised' = Promised
         /\ Macos!At(s) = "authorized" /\ Macos!ByLicence(s) /\ place \in {"counted", "serving"} =>
              /\ s \notin Made /\ Made' = Made \cup {s}
              /\ s \in Promised /\ Promised' = Promised \ {s}
         /\ Macos!At(s) = "authorized" /\ ~Macos!ByLicence(s) /\ place = "serving" =>
              Made' = Made /\ Promised' = Promised
<1>1. /\ sessions'[s].at = place /\ sessions'[s].key = sessions[s].key
      /\ \A u \in Sessions \ {s} : sessions'[u] = sessions[u]
  BY Moving DEF Macos!At
<1>2. QED
  BY <1>1 DEF Made, Promised, Macos!Serving, Macos!ByLicence, Macos!At

\* A session that begins or ends.
LEMMA TurningSets ==
  ASSUME sessions \in [Sessions -> SessionTypes], NEW s \in Sessions,
         NEW place \in {"idle", "authorized"}, NEW key \in MacosKeys \cup {None},
         NEW offline \in BOOLEAN, key # None => place = "authorized",
         sessions' = [sessions EXCEPT ![s] = Macos!Session(place, key, offline)]
  PROVE  /\ Macos!At(s) = "idle" /\ key # None =>
              /\ Made' = Made /\ s \notin Promised /\ Promised' = Promised \cup {s}
         /\ Macos!At(s) \in {"idle", "authorized"} /\ key = None =>
              /\ Made' = Made /\ Promised' = Promised \ {s}
         /\ Macos!At(s) = "ending" /\ key = None =>
              /\ Promised' = Promised /\ Made' = Made \ {s} /\ (Macos!ByLicence(s) <=> s \in Made)
<1>1. place \in Places
  BY DEF Places
<1>2. /\ sessions'[s].at = place /\ sessions'[s].key = key
      /\ \A u \in Sessions \ {s} : sessions'[u] = sessions[u]
  BY <1>1, Turning DEF Macos!Session
<1>3. QED
  BY <1>2 DEF Made, Promised, Macos!Serving, Macos!ByLicence, Macos!At

\* Gamepads and usage are counted as they come and go.
LEMMA MacosCountInvNext ==
  ASSUME Macos!LicenseAssumption, MacosStateTypes, SessionInv, MacosCountInv,
         [Macos!Next]_Macos!vars
  PROVE  MacosCountInv'
<1> USE Counts DEF MacosCountInv, MacosStateTypes
<1>1. ASSUME NEW by \in Callers, Macos!Validate(by) PROVE MacosCountInv'
  <2>1. /\ Made' = Made /\ Promised' = Promised /\ UNCHANGED <<licensed, file, gamepads>>
    BY <1>1, SameSets DEF Macos!Validate
  <2>2. /\ licence' = licence \/ licence'.pending = 0
        /\ operation' = operation \/ (operation' # Macos!NoOp /\ operation'.copy.pending = 0)
    <3>1. CASE Macos!ValidationFails
      BY <3>1 DEF Macos!ValidationFails
    <3>2. CASE Macos!ValidationRefused(by)
      BY <3>2, NothingUnderWay, Beginning DEF Macos!ValidationRefused
    <3>3. CASE Macos!ValidationGranted(by)
      <4>1. [licence EXCEPT !.pending = 0] \in AnyLicence /\ [licence EXCEPT !.pending = 0].pending = 0
        BY <1>1, MacosLicenceFields DEF Macos!Validate
      <4>2. QED
        BY <3>3, <4>1, Beginning DEF Macos!ValidationGranted
    <3>4. QED
      BY <1>1, <3>1, <3>2, <3>3 DEF Macos!Validate
  <2>3. QED
    BY <2>1, <2>2
<1>2. ASSUME NEW s \in Sessions, Macos!Authorize(s) PROVE MacosCountInv'
  <2>1. licence.key \in MacosKeys /\ licence.key # None /\ (~macosOnline) \in BOOLEAN
    BY <1>2, MacosLicenceFields DEF Macos!Authorize, Macos!Licensed
  <2>2. Made' = Made /\ s \notin Promised /\ Promised' = Promised \cup {s}
    BY <1>2, <2>1, TurningSets DEF Macos!Authorize
  <2>3. IsFiniteSet(Promised') /\ Cardinality(Promised') = Cardinality(Promised) + 1
    BY <2>2, FS_AddElement
  <2>4. gamepads' = gamepads + 1 /\ UNCHANGED <<licence, operation, licensed, file>>
    BY <1>2 DEF Macos!Authorize, Macos!memoryVars
  <2>5. QED
    BY <2>2, <2>3, <2>4
<1>3. ASSUME NEW s \in Sessions, Macos!AuthorizeEvaluation(s) PROVE MacosCountInv'
  <2>1. Made' = Made /\ Promised' = Promised \ {s}
    BY <1>3, TurningSets DEF Macos!AuthorizeEvaluation
  <2>2. IsFiniteSet(Promised') /\ Cardinality(Promised') <= Cardinality(Promised)
    <3>1. Cardinality(Promised') \in {Cardinality(Promised), Cardinality(Promised) - 1}
      BY <2>1, FS_RemoveElement
    <3>2. IsFiniteSet(Promised')
      BY <2>1, FS_RemoveElement
    <3>3. QED
      BY <3>1, <3>2
  <2>3. gamepads' = gamepads + 1 /\ UNCHANGED <<licence, operation, licensed, file>>
    BY <1>3 DEF Macos!AuthorizeEvaluation
  <2>4. Cardinality(Promised') \in Nat
    BY <2>2, FS_CardinalityType
  <2>5. QED
    BY <2>1, <2>2, <2>3, <2>4
<1>4. ASSUME NEW s \in Sessions, Macos!CreateFails(s) PROVE MacosCountInv'
  <2>1. Made' = Made /\ Promised' = Promised \ {s}
    BY <1>4, TurningSets DEF Macos!CreateFails, Macos!Idle
  <2>2. IsFiniteSet(Promised') /\ Cardinality(Promised') <= Cardinality(Promised)
    <3>1. Cardinality(Promised') \in {Cardinality(Promised), Cardinality(Promised) - 1}
      BY <2>1, FS_RemoveElement
    <3>2. IsFiniteSet(Promised')
      BY <2>1, FS_RemoveElement
    <3>3. QED
      BY <3>1, <3>2
  <2>3. UNCHANGED <<licence, operation, licensed, file, gamepads>>
    BY <1>4 DEF Macos!CreateFails, Macos!memoryVars, Macos!boundVars
  <2>4. Cardinality(Promised') \in Nat
    BY <2>2, FS_CardinalityType
  <2>5. QED
    BY <2>1, <2>2, <2>3, <2>4
<1>5. ASSUME NEW s \in Sessions, Macos!AddDevice(s) PROVE MacosCountInv'
  <2>1. UNCHANGED <<file, gamepads>> /\ operation = Macos!NoOp
    BY <1>5 DEF Macos!AddDevice, Macos!boundVars
  <2>2. CASE Macos!ByLicence(s)
    <3>1. PICK place \in {"counted", "serving"} : Macos!Goto(s, place)
      BY <1>5 DEF Macos!AddDevice
    <3>2. s \notin Made /\ Made' = Made \cup {s} /\ s \in Promised /\ Promised' = Promised \ {s}
      BY <1>5, <2>2, <3>1, MovingSets DEF Macos!AddDevice, Places
    <3>3. /\ IsFiniteSet(Made') /\ Cardinality(Made') = Cardinality(Made) + 1
          /\ IsFiniteSet(Promised') /\ Cardinality(Promised') = Cardinality(Promised) - 1
      BY <3>2, FS_AddElement, FS_RemoveElement
    <3>4. licensed' = licensed + 1
      BY <1>5, <2>2 DEF Macos!AddDevice
    <3>5. \/ UNCHANGED <<licence, operation>>
          \/ licence'.pending = licence.pending + 1 /\ operation'.copy = licence'
      <4>1. CASE licence.key = sessions[s].key
        <5>1. /\ licence' = [licence EXCEPT !.pending = @ + 1]
              /\ operation' = [kind |-> "count", by |-> s, at |-> "save", copy |-> licence']
          BY <1>5, <2>2, <4>1 DEF Macos!AddDevice
        <5>2. licence'.pending = licence.pending + 1
          BY <5>1, MacosLicenceFields
        <5>3. QED
          BY <5>1, <5>2
      <4>2. CASE licence.key # sessions[s].key
        BY <1>5, <4>2 DEF Macos!AddDevice
      <4>3. QED
        BY <4>1, <4>2
    <3>6. QED
      BY <2>1, <3>3, <3>4, <3>5
  <2>3. CASE ~Macos!ByLicence(s)
    <3>1. Macos!Goto(s, "serving") /\ Macos!At(s) = "authorized" /\ UNCHANGED <<licence, operation, licensed>>
      BY <1>5, <2>3 DEF Macos!AddDevice
    <3>2. Made' = Made /\ Promised' = Promised
      BY <2>3, <3>1, MovingSets DEF Places
    <3>3. QED
      BY <2>1, <3>1, <3>2
  <2>4. QED
    BY <2>2, <2>3
<1>6. ASSUME NEW s \in Sessions, Macos!SaveCount(s) PROVE MacosCountInv'
  <2>1. /\ Made' = Made /\ Promised' = Promised /\ operation' = Macos!NoOp /\ operation.kind = "count"
        /\ UNCHANGED <<licence, licensed, gamepads>> /\ file' \in {file, operation.copy, Macos!NoLicence}
    BY <1>6, MovingSets DEF Macos!SaveCount, Macos!Replaced, Places, Macos!memoryVars, Macos!boundVars,
      SessionInv
  <2>2. operation # Macos!NoOp
    BY <2>1, NothingUnderWay
  <2>3. QED
    BY <2>1, <2>2, NothingUnderWay
<1>7. ASSUME NEW s \in Sessions, Macos!Poll(s) PROVE MacosCountInv'
  <2>1. UNCHANGED sessions \/ (Macos!Goto(s, "ending") /\ Macos!At(s) = "serving")
    BY <1>7 DEF Macos!Poll
  <2>2. Made' = Made /\ Promised' = Promised
    BY <2>1, SameSets, MovingSets DEF Places
  <2>3. UNCHANGED <<licence, operation, licensed, file, gamepads>>
    BY <1>7 DEF Macos!Poll, Macos!boundVars
  <2>4. QED
    BY <2>2, <2>3
<1>8. ASSUME NEW s \in Sessions, Macos!RemoveDevice(s) PROVE MacosCountInv'
  <2>1. Promised' = Promised /\ Made' = Made \ {s} /\ (Macos!ByLicence(s) <=> s \in Made)
    BY <1>8, TurningSets DEF Macos!RemoveDevice, Macos!Idle
  <2>2. /\ IsFiniteSet(Made')
        /\ Cardinality(Made') = IF s \in Made THEN Cardinality(Made) - 1 ELSE Cardinality(Made)
    BY <2>1, FS_RemoveElement
  <2>3. licensed' = Cardinality(Made') /\ licensed' <= licensed
    BY <1>8, <2>1, <2>2 DEF Macos!RemoveDevice
  <2>4. UNCHANGED <<licence, operation, file, gamepads>>
    BY <1>8 DEF Macos!RemoveDevice, Macos!boundVars
  <2>5. QED
    BY <2>1, <2>2, <2>3, <2>4
<1>9. ASSUME NEW s \in Sessions, Macos!ClientEnds(s) PROVE MacosCountInv'
  <2>1. Made' = Made /\ Promised' = Promised
    BY <1>9, MovingSets DEF Macos!ClientEnds, Places
  <2>2. UNCHANGED <<licence, operation, licensed, file, gamepads>>
    BY <1>9 DEF Macos!ClientEnds, Macos!memoryVars, Macos!boundVars
  <2>3. QED
    BY <2>1, <2>2
<1>10. ASSUME Macos!Save PROVE MacosCountInv'
  <2>1. /\ Made' = Made /\ Promised' = Promised /\ operation # Macos!NoOp
        /\ UNCHANGED <<licence, licensed, gamepads>> /\ file' \in {file, operation.copy, Macos!NoLicence}
        /\ operation' = Macos!NoOp \/ operation' = [operation EXCEPT !.at = "commit"]
    BY <1>10, SameSets, NothingUnderWay DEF Macos!Save, Macos!Replaced, Macos!memoryVars, Macos!boundVars
  <2>2. operation' = Macos!NoOp \/ operation'.copy = operation.copy
    BY <2>1, Written
  <2>3. QED
    BY <2>1, <2>2, NothingUnderWay
<1>11. ASSUME Macos!Commit PROVE MacosCountInv'
  <2>1. /\ Made' = Made /\ Promised' = Promised /\ operation # Macos!NoOp
        /\ UNCHANGED <<file, licensed, gamepads>> /\ licence' = operation.copy /\ operation' = Macos!NoOp
    BY <1>11, SameSets, NothingUnderWay DEF Macos!Commit, Macos!boundVars
  <2>2. QED
    BY <2>1
<1>12. ASSUME Macos!DeleteFile PROVE MacosCountInv'
  <2>1. /\ Made' = Made /\ Promised' = Promised /\ operation # Macos!NoOp
        /\ UNCHANGED <<licence, licensed, gamepads>> /\ file' \in {file, Macos!NoLicence}
        /\ operation' = Macos!NoOp \/ operation' = [operation EXCEPT !.at = "commit"]
    BY <1>12, SameSets, NothingUnderWay DEF Macos!DeleteFile, Macos!memoryVars, Macos!boundVars
  <2>2. (operation' = Macos!NoOp \/ operation'.copy = operation.copy) /\ (file' = file \/ file'.pending = 0)
    BY <2>1, Written, NothingUnderWay
  <2>3. QED
    BY <2>1, <2>2
<1>13. ASSUME Macos!Deactivated PROVE MacosCountInv'
  <2>1. /\ Made' = Made /\ Promised' = Promised /\ operation' = Macos!NoOp
        /\ UNCHANGED <<file, licensed, gamepads>> /\ licence'.pending = 0
    BY <1>13, SameSets, NothingUnderWay DEF Macos!Deactivated, Macos!boundVars
  <2>2. QED
    BY <2>1
<1>14. ASSUME Macos!RequestValidate PROVE MacosCountInv'
  BY <1>14, <1>1 DEF Macos!RequestValidate, Callers
<1>15. ASSUME Macos!RequestDeactivate PROVE MacosCountInv'
  <2>1. /\ Made' = Made /\ Promised' = Promised
        /\ UNCHANGED <<licence, file, licensed, gamepads>> /\ operation'.copy.pending = 0
    BY <1>15, SameSets, NothingUnderWay DEF Macos!RequestDeactivate, Macos!Begins, Macos!memoryVars
  <2>2. QED
    BY <2>1
<1>16. ASSUME NEW key \in MacosKeys, Macos!RequestActivate(key) PROVE MacosCountInv'
  <2>1. /\ Made' = Made /\ Promised' = Promised
        /\ UNCHANGED <<licence, file, licensed, gamepads>>
        /\ operation'.copy.pending \in {licence.pending, 0}
    BY <1>16, SameSets DEF Macos!RequestActivate, Macos!Begins, Macos!memoryVars
  <2>2. QED
    BY <2>1
<1>17. ASSUME Macos!Wake PROVE MacosCountInv'
  <2>1. /\ Made' = Made /\ Promised' = Promised
        /\ UNCHANGED <<licence, operation, file, licensed, gamepads>>
    BY <1>17, SameSets DEF Macos!Wake, Macos!memoryVars, Macos!boundVars
  <2>2. QED
    BY <2>1
<1>18. ASSUME Macos!ValidatorRuns PROVE MacosCountInv'
  <2>1. CASE \E by \in Callers : Macos!Validate(by)
    BY <1>1, <2>1
  <2>2. CASE UNCHANGED <<Macos!memoryVars, operation, sessions, file, Macos!boundVars, Macos!historyVars>>
    <3>1. /\ Made' = Made /\ Promised' = Promised
          /\ UNCHANGED <<licence, operation, file, licensed, gamepads>>
      BY <2>2, SameSets DEF Macos!memoryVars, Macos!boundVars
    <3>2. QED
      BY <3>1
  <2>3. QED
    BY <1>18, <2>1, <2>2 DEF Macos!ValidatorRuns, Callers
<1>19. ASSUME Macos!Restart PROVE MacosCountInv'
  <2>1. Made' = {} /\ Promised' = {}
    <3>1. \A s \in Sessions : sessions'[s].at = "idle"
      BY <1>19 DEF Macos!Restart, Macos!Idle, Macos!Session
    <3>2. QED
      BY <3>1 DEF Made, Promised, Macos!Serving, Macos!At
  <2>2. licensed' = 0 /\ operation' = Macos!NoOp /\ licence' = file /\ UNCHANGED <<file, gamepads>>
    BY <1>19 DEF Macos!Restart
  <2>3. QED
    BY <2>1, <2>2, FS_EmptySet
<1>20. ASSUME Macos!TimePasses PROVE MacosCountInv'
  <2>1. /\ Made' = Made /\ Promised' = Promised
        /\ UNCHANGED <<licence, operation, file, licensed, gamepads>>
    BY <1>20, SameSets DEF Macos!TimePasses, Macos!boundVars
  <2>2. QED
    BY <2>1
<1>21. CASE UNCHANGED Macos!vars
  <2>1. /\ Made' = Made /\ Promised' = Promised
        /\ UNCHANGED <<licence, operation, file, licensed, gamepads>>
    BY <1>21, SameSets DEF Macos!vars, Macos!memoryVars, Macos!boundVars
  <2>2. QED
    BY <2>1
<1> HIDE DEF MacosCountInv
<1>22. QED
  BY <1>2, <1>3, <1>4, <1>5, <1>6, <1>7, <1>8, <1>9, <1>10, <1>11, <1>12, <1>13,
    <1>14, <1>15, <1>16, <1>17, <1>18, <1>19, <1>20, <1>21 DEF Macos!Next, Macos!Served,
    Macos!Operation


\* The licence does not change behind an operation.
LEMMA OperationInvNext ==
  ASSUME Macos!LicenseAssumption, MacosStateTypes, OperationInv, UsageInv,
         [Macos!Next]_Macos!vars
  PROVE  OperationInv'
<1> USE DEF OperationInv
<1>1. ASSUME NEW by \in Callers, Macos!Validate(by) PROVE OperationInv'
  <2>1. operation = Macos!NoOp /\ licence \in AnyLicence /\ Macos!Has(licence)
    BY <1>1 DEF Macos!Validate, MacosStateTypes
  <2>2. CASE Macos!ValidationFails
    BY <2>1, <2>2, NothingUnderWay DEF Macos!ValidationFails
  <2>3. CASE Macos!ValidationRefused(by)
    <3>1. /\ licence' = Macos!NoLicence /\ owed' = 0 /\ operation'.kind = "validate"
          /\ operation'.at = "delete" /\ operation'.copy = Macos!NoLicence
      BY <2>3 DEF Macos!ValidationRefused, Macos!Begins
    <3>2. QED
      BY <3>1
  <2>4. CASE Macos!ValidationGranted(by)
    <3>1. /\ licence' = licence /\ operation'.kind = "validate" /\ operation'.at = "save"
          /\ operation'.copy = [licence EXCEPT !.pending = 0]
      BY <2>4 DEF Macos!ValidationGranted, Macos!Begins
    <3>2. owed' = 0
      <4>1. owed \in Nat /\ licence.pending \in Nat /\ owed <= licence.pending
        BY MacosLicenceFields DEF MacosStateTypes, UsageInv
      <4>2. QED
        BY <2>4, <4>1 DEF Macos!ValidationGranted
    <3>3. QED
      BY <2>1, <3>1, <3>2 DEF Macos!Has
  <2>5. QED
    BY <1>1, <2>2, <2>3, <2>4 DEF Macos!Validate
<1>2. ASSUME NEW s \in Sessions, Macos!Authorize(s) PROVE OperationInv'
  <2>1. UNCHANGED <<operation, licence, owed>>
    BY <1>2 DEF Macos!Authorize, Macos!memoryVars, Macos!historyVars
  <2>2. QED
    BY <2>1 DEF Macos!Has
<1>3. ASSUME NEW s \in Sessions, Macos!AuthorizeEvaluation(s) PROVE OperationInv'
  <2>1. UNCHANGED <<operation, licence, owed>>
    BY <1>3 DEF Macos!AuthorizeEvaluation, Macos!historyVars
  <2>2. QED
    BY <2>1 DEF Macos!Has
<1>4. ASSUME NEW s \in Sessions, Macos!CreateFails(s) PROVE OperationInv'
  <2>1. UNCHANGED <<operation, licence, owed>>
    BY <1>4 DEF Macos!CreateFails, Macos!memoryVars, Macos!historyVars
  <2>2. QED
    BY <2>1 DEF Macos!Has
<1>5. ASSUME NEW s \in Sessions, Macos!AddDevice(s) PROVE OperationInv'
  <2>1. CASE Macos!ByLicence(s) /\ licence.key = sessions[s].key
    <3>1. /\ licence' = [licence EXCEPT !.pending = @ + 1] /\ owed' = owed
          /\ operation' = [kind |-> "count", by |-> s, at |-> "save", copy |-> licence']
      BY <1>5, <2>1 DEF Macos!AddDevice, Macos!historyVars
    <3>2. licence.key # None /\ licence \in AnyLicence /\ owed <= licence.pending /\ owed \in Nat
      BY <2>1 DEF Macos!ByLicence, MacosStateTypes, UsageInv
    <3>3. /\ licence'.pending = licence.pending + 1 /\ licence'.key = licence.key
          /\ licence' \in AnyLicence /\ licence.pending \in Nat
      BY <3>1, <3>2, MacosLicenceFields
    <3>4. Macos!Has(licence)' /\ owed' < licence'.pending
      <4>1. licence' # Macos!NoLicence
        BY <3>2, <3>3, NothingUnderWay
      <4>2. owed' < licence'.pending
        BY <3>1, <3>2, <3>3
      <4>3. QED
        BY <4>1, <4>2 DEF Macos!Has
    <3>5. operation'.kind = "count" /\ operation'.copy = licence' /\ operation'.at = "save"
      BY <3>1
    <3>6. QED
      BY <3>4, <3>5
  <2>2. CASE ~(Macos!ByLicence(s) /\ licence.key = sessions[s].key)
    <3>1. UNCHANGED <<operation, licence, owed>>
      BY <1>5, <2>2 DEF Macos!AddDevice, Macos!historyVars
    <3>2. QED
      BY <3>1 DEF Macos!Has
  <2>3. QED
    BY <2>1, <2>2
<1>6. ASSUME NEW s \in Sessions, Macos!SaveCount(s) PROVE OperationInv'
  <2>1. operation' = Macos!NoOp
    BY <1>6 DEF Macos!SaveCount
  <2>2. QED
    BY <2>1, NothingUnderWay
<1>7. ASSUME NEW s \in Sessions, Macos!Poll(s) PROVE OperationInv'
  <2>1. UNCHANGED <<operation, licence, owed>>
    BY <1>7 DEF Macos!Poll, Macos!historyVars
  <2>2. QED
    BY <2>1 DEF Macos!Has
<1>8. ASSUME NEW s \in Sessions, Macos!RemoveDevice(s) PROVE OperationInv'
  <2>1. UNCHANGED <<operation, licence, owed>>
    BY <1>8 DEF Macos!RemoveDevice, Macos!historyVars
  <2>2. QED
    BY <2>1 DEF Macos!Has
<1>9. ASSUME NEW s \in Sessions, Macos!ClientEnds(s) PROVE OperationInv'
  <2>1. UNCHANGED <<operation, licence, owed>>
    BY <1>9 DEF Macos!ClientEnds, Macos!memoryVars, Macos!historyVars
  <2>2. QED
    BY <2>1 DEF Macos!Has
<1>10. ASSUME Macos!Save PROVE OperationInv'
  <2>1. /\ operation.kind \in {"validate", "activate"} /\ operation.at = "save"
        /\ UNCHANGED <<licence, owed>>
        /\ operation' = Macos!NoOp \/ operation' = [operation EXCEPT !.at = "commit"]
    BY <1>10 DEF Macos!Save, Macos!memoryVars
  <2>2. \/ operation'.kind = "none"
        \/ operation'.kind = operation.kind /\ operation'.at = "commit" /\ operation'.copy = operation.copy
    BY <2>1, Written, NothingUnderWay DEF MacosStateTypes
  <2>3. QED
    BY <2>1, <2>2 DEF Macos!Has
<1>11. ASSUME Macos!Commit PROVE OperationInv'
  <2>1. operation' = Macos!NoOp
    BY <1>11 DEF Macos!Commit
  <2>2. QED
    BY <2>1, NothingUnderWay
<1>12. ASSUME Macos!DeleteFile PROVE OperationInv'
  <2>1. /\ operation.kind \in {"validate", "deactivate"} /\ UNCHANGED <<licence, owed>>
        /\ operation' = IF operation.kind = "validate" THEN Macos!NoOp ELSE [operation EXCEPT !.at = "commit"]
    BY <1>12 DEF Macos!DeleteFile, Macos!memoryVars
  <2>2. \/ operation'.kind = "none"
        \/ /\ operation'.kind = "deactivate" /\ operation'.at = "commit"
           /\ operation'.copy = operation.copy /\ operation.kind = "deactivate"
    BY <2>1, Written, NothingUnderWay DEF MacosStateTypes
  <2>3. QED
    BY <2>1, <2>2
<1>13. ASSUME Macos!Deactivated PROVE OperationInv'
  <2>1. operation' = Macos!NoOp
    BY <1>13 DEF Macos!Deactivated
  <2>2. QED
    BY <2>1, NothingUnderWay
<1>14. ASSUME Macos!RequestValidate PROVE OperationInv'
  BY <1>14, <1>1 DEF Macos!RequestValidate, Callers
<1>15. ASSUME Macos!RequestDeactivate PROVE OperationInv'
  <2>1. operation'.kind = "deactivate" /\ operation'.at = "delete" /\ operation'.copy = Macos!NoLicence
    BY <1>15 DEF Macos!RequestDeactivate, Macos!Begins
  <2>2. QED
    BY <2>1
<1>16. ASSUME NEW key \in MacosKeys, Macos!RequestActivate(key) PROVE OperationInv'
  <2>1. operation' = [kind |-> "activate", by |-> "client", at |-> "save",
               copy |-> [key |-> key, pending |-> IF licence.key = key THEN licence.pending ELSE 0]]
        /\ licence' = licence
    BY <1>16 DEF Macos!RequestActivate, Macos!Begins, Macos!memoryVars
  <2>2. QED
    BY <2>1
<1>17. ASSUME Macos!Wake PROVE OperationInv'
  <2>1. UNCHANGED <<operation, licence, owed>>
    BY <1>17 DEF Macos!Wake, Macos!memoryVars, Macos!historyVars
  <2>2. QED
    BY <2>1 DEF Macos!Has
<1>18. ASSUME Macos!ValidatorRuns PROVE OperationInv'
  <2>1. CASE \E by \in Callers : Macos!Validate(by)
    BY <1>1, <2>1
  <2>2. CASE UNCHANGED <<Macos!memoryVars, operation, sessions, file, Macos!boundVars, Macos!historyVars>>
    <3>1. UNCHANGED <<operation, licence, owed>>
      BY <2>2 DEF Macos!memoryVars, Macos!historyVars
    <3>2. QED
      BY <3>1 DEF Macos!Has
  <2>3. QED
    BY <1>18, <2>1, <2>2 DEF Macos!ValidatorRuns, Callers
<1>19. ASSUME Macos!Restart PROVE OperationInv'
  <2>1. operation' = Macos!NoOp
    BY <1>19 DEF Macos!Restart
  <2>2. QED
    BY <2>1, NothingUnderWay
<1>20. ASSUME Macos!TimePasses PROVE OperationInv'
  <2>1. UNCHANGED <<operation, licence, owed>>
    BY <1>20 DEF Macos!TimePasses, Macos!historyVars
  <2>2. QED
    BY <2>1 DEF Macos!Has
<1>21. CASE UNCHANGED Macos!vars
  <2>1. UNCHANGED <<operation, licence, owed>>
    BY <1>21 DEF Macos!vars, Macos!memoryVars, Macos!historyVars
  <2>2. QED
    BY <2>1 DEF Macos!Has
<1> HIDE DEF OperationInv
<1>22. QED
  BY <1>2, <1>3, <1>4, <1>5, <1>6, <1>7, <1>8, <1>9, <1>10, <1>11, <1>12, <1>13,
    <1>14, <1>15, <1>16, <1>17, <1>18, <1>19, <1>20, <1>21 DEF Macos!Next, Macos!Served,
    Macos!Operation


\* The file follows the licence.
LEMMA FileInvNext ==
  ASSUME Macos!LicenseAssumption, MacosStateTypes, SessionInv, OperationInv, FileInv,
         [Macos!Next]_Macos!vars
  PROVE  FileInv'
<1> USE DEF FileInv
<1>1. ASSUME NEW by \in Callers, Macos!Validate(by) PROVE FileInv'
  <2>1. operation = Macos!NoOp /\ UNCHANGED <<file, unsaved, undeleted, unguarded>>
    BY <1>1 DEF Macos!Validate
  <2>2. \/ UNCHANGED <<operation, licence>>
        \/ operation'.kind = "validate" /\ operation'.at = "delete"
        \/ operation'.kind = "validate" /\ operation'.at = "save" /\ UNCHANGED licence
    BY <1>1 DEF Macos!Validate, Macos!ValidationFails, Macos!ValidationRefused,
      Macos!ValidationGranted, Macos!Begins
  <2>3. QED
    BY <2>1, <2>2, NothingUnderWay
<1>2. ASSUME NEW s \in Sessions, Macos!Authorize(s) PROVE FileInv'
  <2>1. UNCHANGED <<operation, licence, file, unsaved, undeleted, unguarded>>
    BY <1>2 DEF Macos!Authorize, Macos!memoryVars, Macos!historyVars
  <2>2. QED
    BY <2>1
<1>3. ASSUME NEW s \in Sessions, Macos!AuthorizeEvaluation(s) PROVE FileInv'
  <2>1. UNCHANGED <<operation, licence, file, unsaved, undeleted, unguarded>>
    BY <1>3 DEF Macos!AuthorizeEvaluation, Macos!historyVars
  <2>2. QED
    BY <2>1
<1>4. ASSUME NEW s \in Sessions, Macos!CreateFails(s) PROVE FileInv'
  <2>1. UNCHANGED <<operation, licence, file, unsaved, undeleted, unguarded>>
    BY <1>4 DEF Macos!CreateFails, Macos!memoryVars, Macos!historyVars
  <2>2. QED
    BY <2>1
<1>5. ASSUME NEW s \in Sessions, Macos!AddDevice(s) PROVE FileInv'
  <2>1. UNCHANGED <<file, unsaved, undeleted, unguarded>>
    BY <1>5 DEF Macos!AddDevice, Macos!historyVars
  <2>2. UNCHANGED <<operation, licence>> \/ operation'.kind = "count"
    BY <1>5 DEF Macos!AddDevice
  <2>3. QED
    BY <2>1, <2>2, NothingUnderWay
<1>6. ASSUME NEW s \in Sessions, Macos!SaveCount(s) PROVE FileInv'
  <2>1. operation.kind = "count" /\ operation.copy = licence
    BY <1>6 DEF Macos!SaveCount, SessionInv, OperationInv
  <2>2. operation' = Macos!NoOp /\ licence' = licence /\ (file' = operation.copy \/ unsaved')
    BY <1>6 DEF Macos!SaveCount, Macos!memoryVars
  <2>3. QED
    BY <2>1, <2>2, NothingUnderWay
<1>7. ASSUME NEW s \in Sessions, Macos!Poll(s) PROVE FileInv'
  <2>1. UNCHANGED <<operation, licence, file, unsaved, undeleted, unguarded>>
    BY <1>7 DEF Macos!Poll, Macos!historyVars
  <2>2. QED
    BY <2>1
<1>8. ASSUME NEW s \in Sessions, Macos!RemoveDevice(s) PROVE FileInv'
  <2>1. UNCHANGED <<operation, licence, file, unsaved, undeleted, unguarded>>
    BY <1>8 DEF Macos!RemoveDevice, Macos!historyVars
  <2>2. QED
    BY <2>1
<1>9. ASSUME NEW s \in Sessions, Macos!ClientEnds(s) PROVE FileInv'
  <2>1. UNCHANGED <<operation, licence, file, unsaved, undeleted, unguarded>>
    BY <1>9 DEF Macos!ClientEnds, Macos!memoryVars, Macos!historyVars
  <2>2. QED
    BY <2>1
<1>10. ASSUME Macos!Save PROVE FileInv'
  <2>1. operation.kind \in {"validate", "activate"} /\ operation.at = "save" /\ UNCHANGED licence
    BY <1>10 DEF Macos!Save, Macos!memoryVars
  <2>2. CASE file' = operation.copy /\ operation' = [operation EXCEPT !.at = "commit"]
    <3>1. operation'.at = "commit" /\ operation'.copy = operation.copy /\ operation' # Macos!NoOp
      BY <2>1, <2>2, Written, NothingUnderWay DEF MacosStateTypes
    <3>2. QED
      BY <2>2, <3>1
  <2>3. CASE operation' = Macos!NoOp /\ UNCHANGED <<file, unsaved, undeleted, unguarded>>
    BY <2>1, <2>3, NothingUnderWay
  <2>4. CASE operation' = Macos!NoOp /\ unguarded'
    BY <2>4
  <2>5. QED
    BY <1>10, <2>2, <2>3, <2>4 DEF Macos!Save
<1>11. ASSUME Macos!Commit PROVE FileInv'
  <2>1. /\ operation.kind \in {"validate", "activate"} /\ operation.at = "commit" /\ operation' = Macos!NoOp
        /\ licence' = operation.copy /\ UNCHANGED <<file, unsaved, undeleted, unguarded>>
    BY <1>11 DEF Macos!Commit
  <2>2. QED
    BY <2>1, NothingUnderWay
<1>12. ASSUME Macos!DeleteFile PROVE FileInv'
  <2>1. /\ operation.kind \in {"validate", "deactivate"} /\ operation.at = "delete" /\ UNCHANGED licence
        /\ undeleted' \/ file' = Macos!NoLicence
    BY <1>12 DEF Macos!DeleteFile, Macos!memoryVars
  <2>2. CASE operation.kind = "validate"
    <3>1. operation' = Macos!NoOp /\ licence = Macos!NoLicence
      BY <1>12, <2>1, <2>2 DEF Macos!DeleteFile, OperationInv
    <3>2. QED
      BY <2>1, <3>1, NothingUnderWay
  <2>3. CASE operation.kind = "deactivate"
    <3>1. operation' = [operation EXCEPT !.at = "commit"] /\ operation.copy = Macos!NoLicence
      BY <1>12, <2>3 DEF Macos!DeleteFile, OperationInv
    <3>2. operation'.at = "commit" /\ operation'.copy = operation.copy /\ operation' # Macos!NoOp
      BY <2>3, <3>1, Written, NothingUnderWay DEF MacosStateTypes
    <3>3. QED
      BY <2>1, <3>1, <3>2
  <2>4. QED
    BY <2>1, <2>2, <2>3
<1>13. ASSUME Macos!Deactivated PROVE FileInv'
  <2>1. /\ operation.kind = "deactivate" /\ operation.at = "commit" /\ operation' = Macos!NoOp
        /\ licence' = Macos!NoLicence /\ UNCHANGED <<file, unsaved, undeleted, unguarded>>
    BY <1>13 DEF Macos!Deactivated
  <2>2. operation.copy = Macos!NoLicence
    BY <2>1 DEF OperationInv
  <2>3. QED
    BY <2>1, <2>2, NothingUnderWay
<1>14. ASSUME Macos!RequestValidate PROVE FileInv'
  BY <1>14, <1>1 DEF Macos!RequestValidate, Callers
<1>15. ASSUME Macos!RequestDeactivate PROVE FileInv'
  <2>1. operation'.kind = "deactivate" /\ operation'.at = "delete"
    BY <1>15 DEF Macos!RequestDeactivate, Macos!Begins
  <2>2. QED
    BY <2>1, NothingUnderWay
<1>16. ASSUME NEW key \in MacosKeys, Macos!RequestActivate(key) PROVE FileInv'
  <2>1. /\ operation'.kind = "activate" /\ operation'.at = "save" /\ operation = Macos!NoOp
        /\ UNCHANGED <<licence, file, unsaved, undeleted, unguarded>>
    BY <1>16 DEF Macos!RequestActivate, Macos!Begins, Macos!memoryVars, Macos!historyVars
  <2>2. QED
    BY <2>1, NothingUnderWay
<1>17. ASSUME Macos!Wake PROVE FileInv'
  <2>1. UNCHANGED <<operation, licence, file, unsaved, undeleted, unguarded>>
    BY <1>17 DEF Macos!Wake, Macos!memoryVars, Macos!historyVars
  <2>2. QED
    BY <2>1
<1>18. ASSUME Macos!ValidatorRuns PROVE FileInv'
  <2>1. CASE \E by \in Callers : Macos!Validate(by)
    BY <1>1, <2>1
  <2>2. CASE UNCHANGED <<Macos!memoryVars, operation, sessions, file, Macos!boundVars, Macos!historyVars>>
    <3>1. UNCHANGED <<operation, licence, file, unsaved, undeleted, unguarded>>
      BY <2>2 DEF Macos!memoryVars, Macos!historyVars
    <3>2. QED
      BY <3>1
  <2>3. QED
    BY <1>18, <2>1, <2>2 DEF Macos!ValidatorRuns, Callers
<1>19. ASSUME Macos!Restart PROVE FileInv'
  <2>1. operation' = Macos!NoOp /\ licence' = file /\ UNCHANGED file
    BY <1>19 DEF Macos!Restart
  <2>2. QED
    BY <2>1, NothingUnderWay
<1>20. ASSUME Macos!TimePasses PROVE FileInv'
  <2>1. UNCHANGED <<operation, licence, file, unsaved, undeleted, unguarded>>
    BY <1>20 DEF Macos!TimePasses, Macos!historyVars
  <2>2. QED
    BY <2>1
<1>21. CASE UNCHANGED Macos!vars
  <2>1. UNCHANGED <<operation, licence, file, unsaved, undeleted, unguarded>>
    BY <1>21 DEF Macos!vars, Macos!memoryVars, Macos!historyVars
  <2>2. QED
    BY <2>1 DEF Macos!Has
<1> HIDE DEF FileInv
<1>22. QED
  BY <1>2, <1>3, <1>4, <1>5, <1>6, <1>7, <1>8, <1>9, <1>10, <1>11, <1>12, <1>13,
    <1>14, <1>15, <1>16, <1>17, <1>18, <1>19, <1>20, <1>21 DEF Macos!Next, Macos!Served,
    Macos!Operation


\* Usage is a number.
LEMMA UsageNumbers ==
  ASSUME Macos!LicenseAssumption, MacosStateTypes
  PROVE  owed \in Nat /\ licence.pending \in Nat /\ file.pending \in Nat
BY MacosLicenceFields DEF MacosStateTypes

\* No usage is forgotten in memory or in the file.
LEMMA UsageInvNext ==
  ASSUME Macos!LicenseAssumption, MacosStateTypes, SessionInv, OperationInv, UsageInv,
         [Macos!Next]_Macos!vars
  PROVE  UsageInv'
<1> USE UsageNumbers, NothingUnderWay DEF UsageInv
<1>1. ASSUME NEW by \in Callers, Macos!Validate(by) PROVE UsageInv'
  <2>1. UNCHANGED <<file, unsaved>> /\ owed' \in {owed, 0}
    <3>1. owed <= licence.pending
      OBVIOUS
    <3>2. QED
      BY <1>1, <3>1 DEF Macos!Validate, Macos!ValidationFails, Macos!ValidationRefused,
        Macos!ValidationGranted
  <2>2. CASE owed' = 0
    <3>1. licence' \in {licence, Macos!NoLicence}
      BY <1>1 DEF Macos!Validate, Macos!ValidationFails, Macos!ValidationRefused,
        Macos!ValidationGranted
    <3>2. QED
      BY <2>1, <2>2, <3>1
  <2>3. CASE owed' # 0
    <3>1. UNCHANGED <<licence, owed>>
      BY <1>1, <2>3 DEF Macos!Validate, Macos!ValidationFails, Macos!ValidationRefused,
        Macos!ValidationGranted
    <3>2. QED
      BY <2>1, <3>1 DEF Macos!Has
  <2>4. QED
    BY <2>2, <2>3
<1>2. ASSUME NEW s \in Sessions, Macos!Authorize(s) PROVE UsageInv'
  <2>1. UNCHANGED <<owed, licence, file, unsaved>>
    BY <1>2 DEF Macos!Authorize, Macos!memoryVars, Macos!historyVars
  <2>2. QED
    BY <2>1 DEF Macos!Has
<1>3. ASSUME NEW s \in Sessions, Macos!AuthorizeEvaluation(s) PROVE UsageInv'
  <2>1. UNCHANGED <<owed, licence, file, unsaved>>
    BY <1>3 DEF Macos!AuthorizeEvaluation, Macos!historyVars
  <2>2. QED
    BY <2>1 DEF Macos!Has
<1>4. ASSUME NEW s \in Sessions, Macos!CreateFails(s) PROVE UsageInv'
  <2>1. UNCHANGED <<owed, licence, file, unsaved>>
    BY <1>4 DEF Macos!CreateFails, Macos!memoryVars, Macos!historyVars
  <2>2. QED
    BY <2>1 DEF Macos!Has
<1>5. ASSUME NEW s \in Sessions, Macos!AddDevice(s) PROVE UsageInv'
  <2>1. UNCHANGED <<file, unsaved, owed>>
    BY <1>5 DEF Macos!AddDevice, Macos!historyVars
  <2>2. CASE licence' = [licence EXCEPT !.pending = @ + 1]
    <3>1. licence'.key = licence.key /\ licence'.pending = licence.pending + 1
      BY <2>2, MacosLicenceFields DEF MacosStateTypes
    <3>2. QED
      BY <2>1, <3>1 DEF Macos!Has
  <2>3. CASE UNCHANGED licence
    BY <2>1, <2>3 DEF Macos!Has
  <2>4. QED
    BY <1>5, <2>2, <2>3 DEF Macos!AddDevice
<1>6. ASSUME NEW s \in Sessions, Macos!SaveCount(s) PROVE UsageInv'
  <2>1. operation.kind = "count" /\ operation.copy = licence /\ owed < licence.pending
    BY <1>6 DEF Macos!SaveCount, SessionInv, OperationInv
  <2>2. licence' = licence /\ owed' = owed + 1 /\ (file' = operation.copy \/ unsaved')
    BY <1>6 DEF Macos!SaveCount, Macos!memoryVars
  <2>3. QED
    BY <2>1, <2>2
<1>7. ASSUME NEW s \in Sessions, Macos!Poll(s) PROVE UsageInv'
  <2>1. UNCHANGED <<owed, licence, file, unsaved>>
    BY <1>7 DEF Macos!Poll, Macos!historyVars
  <2>2. QED
    BY <2>1 DEF Macos!Has
<1>8. ASSUME NEW s \in Sessions, Macos!RemoveDevice(s) PROVE UsageInv'
  <2>1. UNCHANGED <<owed, licence, file, unsaved>>
    BY <1>8 DEF Macos!RemoveDevice, Macos!historyVars
  <2>2. QED
    BY <2>1 DEF Macos!Has
<1>9. ASSUME NEW s \in Sessions, Macos!ClientEnds(s) PROVE UsageInv'
  <2>1. UNCHANGED <<owed, licence, file, unsaved>>
    BY <1>9 DEF Macos!ClientEnds, Macos!memoryVars, Macos!historyVars
  <2>2. QED
    BY <2>1 DEF Macos!Has
<1>10. ASSUME Macos!Save PROVE UsageInv'
  <2>1. operation.kind \in {"validate", "activate"} /\ operation.at = "save" /\ UNCHANGED <<licence, owed>>
    BY <1>10 DEF Macos!Save, Macos!memoryVars
  <2>2. CASE file' = operation.copy
    <3>1. operation.copy.pending \in Nat
      BY <2>1, OperationFields, MacosLicenceFields, NothingUnderWay DEF MacosStateTypes
    <3>2. operation.copy.key = licence.key => owed <= operation.copy.pending
      BY <2>1, <3>1 DEF OperationInv
    <3>3. QED
      BY <2>1, <2>2, <3>2
  <2>3. CASE UNCHANGED <<file, unsaved>>
    BY <2>1, <2>3 DEF Macos!Has
  <2>4. CASE file' = Macos!NoLicence
    BY <2>1, <2>4 DEF Macos!Has
  <2>5. QED
    BY <1>10, <2>2, <2>3, <2>4 DEF Macos!Save, Macos!Replaced
<1>11. ASSUME Macos!Commit PROVE UsageInv'
  <2>1. /\ operation.kind \in {"validate", "activate"} /\ operation.at = "commit"
        /\ licence' = operation.copy /\ UNCHANGED <<file, unsaved>>
        /\ owed' = IF licence.key = operation.copy.key THEN owed ELSE 0
    BY <1>11 DEF Macos!Commit
  <2>2. operation.copy.pending \in Nat
    BY <2>1, OperationFields, MacosLicenceFields, NothingUnderWay DEF MacosStateTypes
  <2>3. owed' <= operation.copy.pending
    BY <2>1, <2>2 DEF OperationInv
  <2>4. QED
    BY <2>1, <2>3 DEF Macos!Has
<1>12. ASSUME Macos!DeleteFile PROVE UsageInv'
  <2>1. UNCHANGED <<licence, owed>> /\ (file' = Macos!NoLicence \/ UNCHANGED <<file, unsaved>>)
    BY <1>12 DEF Macos!DeleteFile, Macos!memoryVars
  <2>2. QED
    BY <2>1 DEF Macos!Has
<1>13. ASSUME Macos!Deactivated PROVE UsageInv'
  <2>1. owed' = 0 /\ licence' = Macos!NoLicence /\ UNCHANGED file
    BY <1>13 DEF Macos!Deactivated
  <2>2. QED
    BY <2>1
<1>14. ASSUME Macos!RequestValidate PROVE UsageInv'
  BY <1>14, <1>1 DEF Macos!RequestValidate, Callers
<1>15. ASSUME Macos!RequestDeactivate PROVE UsageInv'
  <2>1. UNCHANGED <<owed, licence, file, unsaved>>
    BY <1>15 DEF Macos!RequestDeactivate, Macos!memoryVars, Macos!historyVars
  <2>2. QED
    BY <2>1 DEF Macos!Has
<1>16. ASSUME NEW key \in MacosKeys, Macos!RequestActivate(key) PROVE UsageInv'
  <2>1. UNCHANGED <<owed, licence, file, unsaved>>
    BY <1>16 DEF Macos!RequestActivate, Macos!memoryVars, Macos!historyVars
  <2>2. QED
    BY <2>1 DEF Macos!Has
<1>17. ASSUME Macos!Wake PROVE UsageInv'
  <2>1. UNCHANGED <<owed, licence, file, unsaved>>
    BY <1>17 DEF Macos!Wake, Macos!memoryVars, Macos!historyVars
  <2>2. QED
    BY <2>1 DEF Macos!Has
<1>18. ASSUME Macos!ValidatorRuns PROVE UsageInv'
  <2>1. CASE \E by \in Callers : Macos!Validate(by)
    BY <1>1, <2>1
  <2>2. CASE UNCHANGED <<Macos!memoryVars, operation, sessions, file, Macos!boundVars, Macos!historyVars>>
    <3>1. UNCHANGED <<owed, licence, file, unsaved>>
      BY <2>2 DEF Macos!memoryVars, Macos!historyVars
    <3>2. QED
      BY <3>1 DEF Macos!Has
  <2>3. QED
    BY <1>18, <2>1, <2>2 DEF Macos!ValidatorRuns, Callers
<1>19. ASSUME Macos!Restart PROVE UsageInv'
  <2>1. /\ licence' = file /\ file' = file
        /\ owed' = IF file.key # licence.key THEN 0
                    ELSE IF unsaved /\ owed > file.pending THEN file.pending ELSE owed
    BY <1>19 DEF Macos!Restart
  <2>2. CASE Macos!Has(file)
    BY <2>1, <2>2
  <2>3. CASE ~Macos!Has(file)
    <3>1. file = Macos!NoLicence /\ (licence.key = None => licence.pending = 0)
      BY <2>3, MacosLicenceFields DEF Macos!Has, MacosStateTypes
    <3>2. QED
      BY <2>1, <3>1
  <2>4. QED
    BY <2>2, <2>3
<1>20. ASSUME Macos!TimePasses PROVE UsageInv'
  <2>1. UNCHANGED <<owed, licence, file, unsaved>>
    BY <1>20 DEF Macos!TimePasses, Macos!historyVars
  <2>2. QED
    BY <2>1 DEF Macos!Has
<1>21. CASE UNCHANGED Macos!vars
  <2>1. UNCHANGED <<owed, licence, file, unsaved>>
    BY <1>21 DEF Macos!vars, Macos!memoryVars, Macos!historyVars
  <2>2. QED
    BY <2>1 DEF Macos!Has
<1> HIDE DEF UsageInv
<1>22. QED
  BY <1>2, <1>3, <1>4, <1>5, <1>6, <1>7, <1>8, <1>9, <1>10, <1>11, <1>12, <1>13,
    <1>14, <1>15, <1>16, <1>17, <1>18, <1>19, <1>20, <1>21 DEF Macos!Next, Macos!Served,
    Macos!Operation

-----------------------------------------------------------------------------
(* The inductive invariant and what follows from it.                         *)

LEMMA LicenceInvInit == ASSUME Macos!LicenseAssumption, Macos!Init PROVE LicenceInv
<1> USE DEF Macos!Init
<1>1. ClockTypes
  BY DEF ClockTypes
<1>2. /\ file \in AnyLicence /\ licence = file /\ file.pending = 0 /\ operation = Macos!NoOp
      /\ owed = 0
      /\ gamepads = 0 /\ licensed = 0 /\ \A s \in Sessions : sessions[s] = Macos!Idle
  BY NothingUnderWay DEF AnyLicence
<1>3. Macos!Idle \in SessionTypes /\ Macos!Idle.at = "idle" /\ ~Macos!Idle.offline
  BY DEF Macos!Idle, Macos!Session, SessionTypes, Places
<1>4. MacosStateTypes
  BY <1>2, <1>3 DEF MacosStateTypes, Macos!LicenseAssumption
<1>5. SessionInv
  BY <1>2, <1>3, NothingUnderWay DEF SessionInv, Macos!At
<1>6. MacosCountInv
  <2>1. Made = {} /\ Promised = {}
    BY <1>2, <1>3 DEF Made, Promised, Macos!Serving, Macos!At
  <2>2. QED
    BY <1>2, <2>1, FS_EmptySet DEF MacosCountInv
<1>7. OperationInv /\ FileInv /\ UsageInv
  BY <1>2, NothingUnderWay DEF OperationInv, FileInv, UsageInv
<1>8. QED
  BY <1>1, <1>4, <1>5, <1>6, <1>7 DEF LicenceInv

\* Every reachable state satisfies the inductive invariant: what an operation writes under
\* operation_mutex_ fits what others change meanwhile under mutex_.
THEOREM LicenceInvariance == ASSUME Macos!LicenseAssumption PROVE Macos!Spec => []LicenceInv
<1>1. Macos!Init => LicenceInv
  BY LicenceInvInit
<1>2. LicenceInv /\ [Macos!Next]_Macos!vars => LicenceInv'
  BY ClockTypesNext, MacosStateTypesNext, SessionInvNext, MacosCountInvNext, OperationInvNext,
    FileInvNext, UsageInvNext DEF LicenceInv
<1>3. QED
  BY <1>1, <1>2, PTL DEF Macos!Spec

\* Licences, operations, sessions and times keep their types, and no count exceeds the
\* gamepads that were authorised.
THEOREM LicenseTypeCorrect == ASSUME Macos!LicenseAssumption PROVE Macos!Spec => []Macos!TypeOK
<1>1. LicenceInv => Macos!TypeOK
  <2> SUFFICES ASSUME LicenceInv PROVE Macos!TypeOK
    OBVIOUS
  <2>1. ClockTypes /\ MacosStateTypes /\ MacosCountInv /\ UsageInv
    BY DEF LicenceInv
  <2>2. MacosDevices \in Nat /\ gamepads \in 0..MacosDevices
    BY <2>1 DEF MacosStateTypes, Macos!LicenseAssumption
  <2>3. /\ licence.pending \in 0..MacosDevices /\ file.pending \in 0..MacosDevices
        /\ licensed \in 0..MacosDevices /\ owed \in 0..MacosDevices
        /\ operation # Macos!NoOp => operation.copy.pending \in 0..MacosDevices
    <3>1. UsageInv /\ owed \in Nat
      BY <2>1 DEF MacosStateTypes
    <3>2. QED
      BY <2>1, <2>2, <3>1, Counts DEF MacosCountInv, UsageInv
  <2>4. \A l \in AnyLicence : l.pending \in 0..MacosDevices => l \in Macos!Licences
    BY DEF AnyLicence, Macos!Licences
  <2>5. {licence, file} \subseteq Macos!Licences
    BY <2>1, <2>3, <2>4 DEF MacosStateTypes
  <2>6. /\ operation.kind \in {"none", "validate", "activate", "deactivate", "count"}
        /\ operation # Macos!NoOp => operation.copy \in Macos!Licences
    BY <2>1, <2>3, <2>4, OperationFields, NothingUnderWay DEF MacosStateTypes
  <2>7. \A s \in Sessions : sessions[s] \in SessionTypes
    BY <2>1 DEF MacosStateTypes
  <2>8. QED
    BY <2>1, <2>3, <2>5, <2>6, <2>7 DEF Macos!TypeOK, ClockTypes, SessionTypes, Places
<1>2. QED
  BY <1>1, LicenceInvariance, PTL

\* The licence file never loses a licence or brings one back: while no operation is under
\* way it is the licence in memory, unless a count could not be saved, or a file not be
\* deleted or protected (write_protected_json() and removeItemAtPath()).
THEOREM FileFollowsMemory == ASSUME Macos!LicenseAssumption PROVE Macos!Spec => []Macos!FileIsMemory
<1>1. LicenceInv => Macos!FileIsMemory
  BY DEF LicenceInv, FileInv, Macos!FileIsMemory
<1>2. QED
  BY <1>1, LicenceInvariance, PTL

\* No gamepad that was served goes uncounted, though validate() reports a count while
\* add_device() adds to it, and the broker may end at any point.
THEOREM UsageStaysPending == ASSUME Macos!LicenseAssumption PROVE Macos!Spec => []Macos!UsagePending
<1>1. LicenceInv => Macos!UsagePending
  BY DEF LicenceInv, UsageInv, Macos!UsagePending
<1>2. QED
  BY <1>1, LicenceInvariance, PTL

\* active_licensed_devices_ is the number of gamepads there are by a licence, from
\* add_device() to remove_device(), although one is counted before its client is answered
\* and sessions begin and end in any order: in an outage a gamepad is authorised only if
\* there is none.
THEOREM CountsAreTrue == ASSUME Macos!LicenseAssumption PROVE Macos!Spec => []CountTrue
<1>1. LicenceInv => CountTrue
  <2>1. Made = {s \in Sessions : Macos!ByLicence(s) /\ Macos!Serving(s)}
    BY DEF Made
  <2>2. QED
    BY <2>1 DEF LicenceInv, MacosCountInv, CountTrue
<1>2. QED
  BY <1>1, LicenceInvariance, PTL

-----------------------------------------------------------------------------
(* Both brokers side by side.                                                *)

\* Each behaviour is one of the Windows broker, which may never take a step.
LEMMA WindowsBrokerRuns == BrokersSpec => Spec
<1>1. BrokersInit => Init
  BY DEF BrokersInit
<1>2. [BrokersNext]_brokersVars => [Next]_vars
  BY DEF BrokersNext, brokersVars, vars
<1>3. QED
  BY <1>1, <1>2, PTL DEF BrokersSpec, Spec

\* And one of the licence manager.
LEMMA MacosBrokerRuns == BrokersSpec => Macos!Spec
<1>1. BrokersInit => Macos!Init
  BY DEF BrokersInit
<1>2. [BrokersNext]_brokersVars => [Macos!Next]_(Macos!vars)
  BY DEF BrokersNext, brokersVars, macosVars, Macos!vars, Macos!memoryVars,
    Macos!boundVars, Macos!historyVars
<1>3. QED
  BY <1>1, <1>2, PTL DEF BrokersSpec, Macos!Spec

LEMMA ManagerAssumption == Macos!LicenseAssumption
BY BrokersAssumption

\* The variables of both brokers keep their types.
THEOREM BrokersTypesCorrect == BrokersSpec => []TypesOK
<1>1. Macos!Spec => []Macos!TypeOK
  BY ManagerAssumption, LicenseTypeCorrect
<1>2. TypeOK /\ Macos!TypeOK => TypesOK
  BY DEF TypesOK
<1>3. QED
  BY WindowsBrokerRuns, BrokerTypeCorrect, MacosBrokerRuns, <1>1, <1>2, PTL

\* On macOS the licence file follows the licence in memory unless it could not be written or
\* deleted, no gamepad goes uncounted by Polar, and the broker's count of gamepads is true
\* (license_manager.mm), for any number of sessions, keys, gamepads and restarts.
THEOREM LicencesKept == BrokersSpec => []LicenceKept
<1>1. /\ Macos!Spec => []Macos!FileIsMemory
      /\ Macos!Spec => []Macos!UsagePending
      /\ Macos!Spec => []CountTrue
  BY ManagerAssumption, FileFollowsMemory, UsageStaysPending, CountsAreTrue
<1>2. Macos!FileIsMemory /\ Macos!UsagePending /\ CountTrue => LicenceKept
  BY DEF LicenceKept
<1>3. QED
  BY MacosBrokerRuns, <1>1, <1>2, PTL
=============================================================================
