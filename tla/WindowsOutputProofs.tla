------------------------ MODULE WindowsOutputProofs ------------------------
(***************************************************************************)
(* Proofs about WindowsOutput, for any number of clients, devices and      *)
(* output reports.                                                         *)
(***************************************************************************)
EXTENDS WindowsOutput, TLAPS

\* A VHF callback under way carries an event of its own device.
Carried ==
  \A d \in Devices :
    vhf[d] # "idle" => holds[d] \in Events /\ holds[d].device = d

\* Between two turns of its loop a client has no read outstanding.
NoneBetween ==
  \A c \in Clients : reader[c] \in {"loop", "ended"} => read[c] = "none"

TypeInv == TypeOK /\ Carried

OwnerInv == OneOwner /\ NoneBetween

\* No request or event at the start.
LEMMA TypeInvInit == Init => TypeInv
BY OutputAssumption DEF Init, TypeInv, TypeOK, Carried, Events, NoEvent, Marked

\* No step breaks the types, given that a read has one owner: otherwise a read
\* could be completed while it is in the vector.
LEMMA TypeInvNext ==
  ASSUME TypeInv, OwnerInv, [Next]_vars PROVE TypeInv'
<1> USE OutputAssumption DEF TypeInv, TypeOK, Carried, Marked
<1>1. ASSUME NEW d \in Devices, CreateDevice(d) PROVE TypeInv'
  BY <1>1 DEF CreateDevice, HandleOpen, callbackVars, requestVars, endVars,
    clientVars
<1>2. ASSUME NEW d \in Devices, RegisterDevice(d) PROVE TypeInv'
  BY <1>2 DEF RegisterDevice, callbackVars, requestVars, endVars, clientVars
<1>3. ASSUME NEW d \in Devices, DestroyDevice(d) PROVE TypeInv'
  BY <1>3 DEF DestroyDevice, callbackVars, requestVars, endVars, clientVars
<1>4. ASSUME ResetDevices PROVE TypeInv'
  BY <1>4 DEF ResetDevices, callbackVars, requestVars, endVars, clientVars
<1>5. ASSUME NEW d \in Devices, DeleteDevice(d) PROVE TypeInv'
  BY <1>5 DEF DeleteDevice, callbackVars, requestVars, endVars, clientVars
<1>6. ASSUME NEW d \in Devices, WriteReport(d) PROVE TypeInv'
  BY <1>6 DEF WriteReport, Event, requestVars, endVars, clientVars, Events,
    NoEvent
<1>7. ASSUME NEW d \in Devices, BufferEvent(d) PROVE TypeInv'
  BY <1>7 DEF BufferEvent, CallbackReturns, Buffer, deviceVars, requestVars,
    endVars, clientVars
<1>8. ASSUME NEW d \in Devices, TakeRead(d) PROVE TypeInv'
  BY <1>8 DEF TakeRead, deviceVars, endVars, clientVars
<1>9. ASSUME NEW d \in Devices, CompleteRead(d) PROVE TypeInv'
  BY <1>9 DEF CompleteRead, Complete, CallbackReturns, deviceVars, endVars,
    clientVars, OwnerInv, OneOwner, Owns, Parties, Callbacks, DevicesOf
<1>10. ASSUME NEW d \in Devices, UnmarkFails(d) PROVE TypeInv'
  BY <1>10 DEF UnmarkFails, deviceVars, requestVars, endVars, clientVars
<1>11. ASSUME NEW d \in Devices, RebufferEvent(d) PROVE TypeInv'
  BY <1>11 DEF RebufferEvent, CallbackReturns, Buffer, deviceVars,
    requestVars, endVars, clientVars
<1>12. ASSUME NEW c \in Clients, AnswerRead(c) PROVE TypeInv'
  BY <1>12 DEF AnswerRead, Complete, deviceVars, callbackVars, endVars,
    clientVars
<1>13. ASSUME NEW c \in Clients, KeepRead(c) PROVE TypeInv'
  BY <1>13 DEF KeepRead, deviceVars, callbackVars, endVars, clientVars
<1>14. ASSUME NEW c \in Clients, MarkFails(c) PROVE TypeInv'
  BY <1>14 DEF MarkFails, Complete, deviceVars, callbackVars, endVars,
    clientVars
<1>15. ASSUME NEW c \in Clients, QueueFails(c) PROVE TypeInv'
  BY <1>15 DEF QueueFails, Complete, deviceVars, callbackVars, endVars,
    clientVars
<1>16. ASSUME NEW c \in Clients, CancelRoutine(c) PROVE TypeInv'
  <2>1. /\ pending' = pending \ {c} /\ c \notin pending'
        /\ UNCHANGED <<device, sent, vhf, holds, buffered, cleanup, hardware,
                       taken, reader, stop, received>>
    BY <1>16 DEF CancelRoutine, deviceVars, callbackVars, endVars, clientVars
  <2>2. CASE c \in pending
    <3>1. /\ read' = [read EXCEPT ![c] = "done"]
          /\ result' = [result EXCEPT ![c] = NoEvent]
      BY <1>16, <2>2 DEF CancelRoutine, Complete
    <3>2. QED
      BY <2>1, <3>1
  <2>3. CASE c \notin pending
    <3>1. read' = [read EXCEPT ![c] = "canceled"] /\ UNCHANGED result
      BY <1>16, <2>3 DEF CancelRoutine
    <3>2. QED
      BY <2>1, <3>1
  <2>4. QED
    BY <2>2, <2>3
<1>17. ASSUME NEW c \in Clients, CleanupDevices(c) PROVE TypeInv'
  BY <1>17 DEF CleanupDevices, Closing, HandleOpen, callbackVars, requestVars,
    clientVars
<1>18. ASSUME NEW c \in Clients, CleanupRequests(c) PROVE TypeInv'
  BY <1>18 DEF CleanupRequests, deviceVars, callbackVars, clientVars
<1>19. ASSUME NEW c \in Clients, CleanupCompletes(c) PROVE TypeInv'
  <2>1. c \notin pending
    BY <1>19 DEF CleanupCompletes, OwnerInv, OneOwner, Owns, Parties
  <2>2. CASE read[c] = "cancelable"
    <3>1. /\ read' = [read EXCEPT ![c] = "done"]
          /\ result' = [result EXCEPT ![c] = NoEvent]
          /\ cleanup' = [cleanup EXCEPT ![c] = "done"]
      BY <1>19, <2>2 DEF CleanupCompletes, CompleteIfUnmarked, Complete
    <3>2. UNCHANGED <<device, sent, vhf, holds, buffered, pending, hardware,
                      taken, reader, stop, received>>
      BY <1>19 DEF CleanupCompletes, deviceVars, callbackVars, clientVars
    <3>3. QED
      BY <2>1, <3>1, <3>2
  <2>3. CASE read[c] # "cancelable"
    BY <1>19, <2>3 DEF CleanupCompletes, CompleteIfUnmarked, deviceVars,
      callbackVars, clientVars
  <2>4. QED
    BY <2>2, <2>3
<1>20. ASSUME ReleaseHardware PROVE TypeInv'
  BY <1>20 DEF ReleaseHardware, deviceVars, callbackVars, clientVars
<1>21. ASSUME NEW c \in Clients, ReleaseCompletes(c) PROVE TypeInv'
  <2>1. c \notin pending
    BY <1>21 DEF ReleaseCompletes, OwnerInv, OneOwner, Owns, Parties
  <2>2. CASE read[c] = "cancelable"
    <3>1. /\ read' = [read EXCEPT ![c] = "done"]
          /\ result' = [result EXCEPT ![c] = NoEvent]
      BY <1>21, <2>2 DEF ReleaseCompletes, CompleteIfUnmarked, Complete
    <3>2. UNCHANGED <<device, sent, vhf, holds, buffered, pending, cleanup,
                      hardware, reader, stop, received>>
          /\ taken' \subseteq taken
      BY <1>21 DEF ReleaseCompletes, deviceVars, callbackVars, clientVars
    <3>3. QED
      BY <2>1, <3>1, <3>2
  <2>3. CASE read[c] # "cancelable"
    BY <1>21, <2>3 DEF ReleaseCompletes, CompleteIfUnmarked, deviceVars,
      callbackVars, clientVars
  <2>4. QED
    BY <2>2, <2>3
<1>22. ASSUME ReleaseDevices PROVE TypeInv'
  BY <1>22 DEF ReleaseDevices, Closing, callbackVars, requestVars, clientVars
<1>23. ASSUME Released PROVE TypeInv'
  BY <1>23 DEF Released, deviceVars, callbackVars, requestVars, clientVars
<1>24. ASSUME NEW c \in Clients, StartRead(c) PROVE TypeInv'
  BY <1>24 DEF StartRead, deviceVars, callbackVars, endVars, OwnerInv,
    NoneBetween
<1>25. ASSUME NEW c \in Clients, ReadDone(c) PROVE TypeInv'
  BY <1>25 DEF ReadDone, deviceVars, callbackVars, endVars
<1>26. ASSUME NEW c \in Clients, CancelRead(c) PROVE TypeInv'
  BY <1>26 DEF CancelRead, Cancelled, deviceVars, callbackVars, endVars
<1>27. ASSUME NEW c \in Clients, LoopEnds(c) PROVE TypeInv'
  BY <1>27 DEF LoopEnds, deviceVars, callbackVars, requestVars, endVars
<1>28. ASSUME NEW c \in Clients, SetStopEvent(c) PROVE TypeInv'
  BY <1>28 DEF SetStopEvent, HandleOpen, deviceVars, callbackVars,
    requestVars, endVars
<1>29. ASSUME NEW c \in Clients, RequestStop(c) PROVE TypeInv'
  BY <1>29 DEF RequestStop, HandleOpen, deviceVars, callbackVars, requestVars,
    endVars
<1>30. ASSUME NEW c \in Clients, ClientDies(c) PROVE TypeInv'
  BY <1>30 DEF ClientDies, Cancelled, HandleOpen, deviceVars, callbackVars,
    endVars
<1>31. CASE UNCHANGED vars
  BY <1>31 DEF vars, deviceVars, callbackVars, requestVars, endVars,
    clientVars
<1> HIDE DEF TypeInv, TypeOK, Carried
<1>32. QED
  BY <1>1, <1>2, <1>3, <1>4, <1>5, <1>6, <1>7, <1>8, <1>9, <1>10, <1>11,
    <1>12, <1>13, <1>14, <1>15, <1>16, <1>17, <1>18, <1>19, <1>20, <1>21,
    <1>22, <1>23, <1>24, <1>25, <1>26, <1>27, <1>28, <1>29, <1>30, <1>31 DEF
    Next, VhfStep, ReadStep, CleanupStep, ReaderStep

\* At the start no read has an owner.
LEMMA OwnerInvInit == Init => OwnerInv
<1> SUFFICES ASSUME Init PROVE OwnerInv
  OBVIOUS
<1>1. NoneBetween
  BY DEF Init, NoneBetween
<1>2. ASSUME NEW c \in Clients
      PROVE  /\ Callbacks(c) = {}
             /\ c \notin pending /\ c \notin taken /\ cleanup[c] = "no"
  BY DEF Init, Callbacks, DevicesOf
<1>3. OneOwner
  BY <1>2 DEF OneOwner, Owns, Parties
<1>4. QED
  BY <1>1, <1>3 DEF OwnerInv

\* No step gives a read a second owner, or completes it while it has one.
LEMMA OwnerInvNext ==
  ASSUME TypeInv, OwnerInv, [Next]_vars PROVE OwnerInv'
<1> USE OutputAssumption DEF TypeInv, TypeOK, OwnerInv, OneOwner, NoneBetween,
  Owns, Parties, Callbacks, DevicesOf, Marked
<1>1. ASSUME NEW d \in Devices, CreateDevice(d) PROVE OwnerInv'
  BY <1>1 DEF CreateDevice, HandleOpen, callbackVars, requestVars, endVars,
    clientVars
<1>2. ASSUME NEW d \in Devices, RegisterDevice(d) PROVE OwnerInv'
  BY <1>2 DEF RegisterDevice, callbackVars, requestVars, endVars, clientVars
<1>3. ASSUME NEW d \in Devices, DestroyDevice(d) PROVE OwnerInv'
  BY <1>3 DEF DestroyDevice, callbackVars, requestVars, endVars, clientVars
<1>4. ASSUME ResetDevices PROVE OwnerInv'
  BY <1>4 DEF ResetDevices, callbackVars, requestVars, endVars, clientVars
<1>5. ASSUME NEW d \in Devices, DeleteDevice(d) PROVE OwnerInv'
  BY <1>5 DEF DeleteDevice, callbackVars, requestVars, endVars, clientVars
<1>6. ASSUME NEW d \in Devices, WriteReport(d) PROVE OwnerInv'
  BY <1>6 DEF WriteReport, Event, requestVars, endVars, clientVars
<1>7. ASSUME NEW d \in Devices, BufferEvent(d) PROVE OwnerInv'
  BY <1>7 DEF BufferEvent, CallbackReturns, Buffer, deviceVars, requestVars,
    endVars, clientVars
<1>8. ASSUME NEW d \in Devices, TakeRead(d) PROVE OwnerInv'
  BY <1>8 DEF TakeRead, deviceVars, endVars, clientVars
<1>9. ASSUME NEW d \in Devices, CompleteRead(d) PROVE OwnerInv'
  BY <1>9 DEF CompleteRead, Complete, CallbackReturns, deviceVars, endVars,
    clientVars
<1>10. ASSUME NEW d \in Devices, UnmarkFails(d) PROVE OwnerInv'
  BY <1>10 DEF UnmarkFails, deviceVars, requestVars, endVars, clientVars
<1>11. ASSUME NEW d \in Devices, RebufferEvent(d) PROVE OwnerInv'
  BY <1>11 DEF RebufferEvent, CallbackReturns, Buffer, deviceVars,
    requestVars, endVars, clientVars
<1>12. ASSUME NEW c \in Clients, AnswerRead(c) PROVE OwnerInv'
  BY <1>12 DEF AnswerRead, Complete, deviceVars, callbackVars, endVars,
    clientVars
<1>13. ASSUME NEW c \in Clients, KeepRead(c) PROVE OwnerInv'
  BY <1>13 DEF KeepRead, deviceVars, callbackVars, endVars, clientVars
<1>14. ASSUME NEW c \in Clients, MarkFails(c) PROVE OwnerInv'
  BY <1>14 DEF MarkFails, Complete, deviceVars, callbackVars, endVars,
    clientVars
<1>15. ASSUME NEW c \in Clients, QueueFails(c) PROVE OwnerInv'
  BY <1>15 DEF QueueFails, Complete, deviceVars, callbackVars, endVars,
    clientVars
<1>16. ASSUME NEW c \in Clients, CancelRoutine(c) PROVE OwnerInv'
  BY <1>16 DEF CancelRoutine, Complete, deviceVars, callbackVars, endVars,
    clientVars
<1>17. ASSUME NEW c \in Clients, CleanupDevices(c) PROVE OwnerInv'
  BY <1>17 DEF CleanupDevices, Closing, HandleOpen, callbackVars, requestVars,
    clientVars
<1>18. ASSUME NEW c \in Clients, CleanupRequests(c) PROVE OwnerInv'
  BY <1>18 DEF CleanupRequests, deviceVars, callbackVars, clientVars
<1>19. ASSUME NEW c \in Clients, CleanupCompletes(c) PROVE OwnerInv'
  BY <1>19 DEF CleanupCompletes, CompleteIfUnmarked, Complete, deviceVars,
    callbackVars, clientVars
<1>20. ASSUME ReleaseHardware PROVE OwnerInv'
  BY <1>20 DEF ReleaseHardware, deviceVars, callbackVars, clientVars
<1>21. ASSUME NEW c \in Clients, ReleaseCompletes(c) PROVE OwnerInv'
  BY <1>21 DEF ReleaseCompletes, CompleteIfUnmarked, Complete, deviceVars,
    callbackVars, clientVars
<1>22. ASSUME ReleaseDevices PROVE OwnerInv'
  BY <1>22 DEF ReleaseDevices, Closing, callbackVars, requestVars, clientVars
<1>23. ASSUME Released PROVE OwnerInv'
  BY <1>23 DEF Released, deviceVars, callbackVars, requestVars, clientVars
<1>24. ASSUME NEW c \in Clients, StartRead(c) PROVE OwnerInv'
  BY <1>24 DEF StartRead, deviceVars, callbackVars, endVars
<1>25. ASSUME NEW c \in Clients, ReadDone(c) PROVE OwnerInv'
  BY <1>25 DEF ReadDone, deviceVars, callbackVars, endVars
<1>26. ASSUME NEW c \in Clients, CancelRead(c) PROVE OwnerInv'
  BY <1>26 DEF CancelRead, Cancelled, deviceVars, callbackVars, endVars
<1>27. ASSUME NEW c \in Clients, LoopEnds(c) PROVE OwnerInv'
  BY <1>27 DEF LoopEnds, deviceVars, callbackVars, requestVars, endVars
<1>28. ASSUME NEW c \in Clients, SetStopEvent(c) PROVE OwnerInv'
  BY <1>28 DEF SetStopEvent, HandleOpen, deviceVars, callbackVars,
    requestVars, endVars
<1>29. ASSUME NEW c \in Clients, RequestStop(c) PROVE OwnerInv'
  BY <1>29 DEF RequestStop, HandleOpen, deviceVars, callbackVars, requestVars,
    endVars
<1>30. ASSUME NEW c \in Clients, ClientDies(c) PROVE OwnerInv'
  BY <1>30 DEF ClientDies, Cancelled, HandleOpen, deviceVars, callbackVars,
    endVars
<1>31. CASE UNCHANGED vars
  BY <1>31 DEF vars, deviceVars, callbackVars, requestVars, endVars,
    clientVars
<1>32. QED
  BY <1>1, <1>2, <1>3, <1>4, <1>5, <1>6, <1>7, <1>8, <1>9, <1>10, <1>11,
    <1>12, <1>13, <1>14, <1>15, <1>16, <1>17, <1>18, <1>19, <1>20, <1>21,
    <1>22, <1>23, <1>24, <1>25, <1>26, <1>27, <1>28, <1>29, <1>30, <1>31 DEF
    Next, VhfStep, ReadStep, CleanupStep, ReaderStep

\* What a cleanup relies on: a device that is gone calls back no more, a client
\* that has ended sends no read, and no device of a handle that is cleaned up
\* stays or comes.
CleaningInv ==
  /\ \A d \in Devices :
       device[d] \in {"none", "destroyed", "closed"} => vhf[d] = "idle"
  /\ \A c \in Clients : ~HandleOpen(c) => read[c] # "sent"
  /\ \A c \in Clients : cleanup[c] # "no" =>
       /\ ~HandleOpen(c)
       /\ \A d \in DevicesOf(c) : device[d] \notin {"starting", "live"}
  /\ \A c \in Clients : cleanup[c] \in {"complete", "done"} =>
       \A d \in DevicesOf(c) : device[d] # "closing"

\* Events are buffered for the owner of their device.
Home ==
  \A c \in Clients : \A i \in DOMAIN buffered[c] :
    Owner[buffered[c][i].device] = c

\* At the start no handle is cleaned up and nothing is buffered.
LEMMA CleaningInvInit == Init => CleaningInv /\ Home /\ CleanedUp
BY DEF Init, CleaningInv, Home, CleanedUp, HandleOpen

\* No step of a client, of VHF or of the removal of the hardware undoes what
\* the cleanup of a handle has established.
LEMMA CleaningInvNext ==
  ASSUME TypeInv, OwnerInv, CleaningInv, [Next]_vars PROVE CleaningInv'
<1> USE OutputAssumption DEF TypeInv, TypeOK, OwnerInv, NoneBetween,
  CleaningInv, HandleOpen, DevicesOf
<1>1. ASSUME NEW d \in Devices, CreateDevice(d) PROVE CleaningInv'
  BY <1>1 DEF CreateDevice, HandleOpen, callbackVars, requestVars, endVars,
    clientVars
<1>2. ASSUME NEW d \in Devices, RegisterDevice(d) PROVE CleaningInv'
  BY <1>2 DEF RegisterDevice, callbackVars, requestVars, endVars, clientVars
<1>3. ASSUME NEW d \in Devices, DestroyDevice(d) PROVE CleaningInv'
  BY <1>3 DEF DestroyDevice, callbackVars, requestVars, endVars, clientVars
<1>4. ASSUME ResetDevices PROVE CleaningInv'
  BY <1>4 DEF ResetDevices, callbackVars, requestVars, endVars, clientVars
<1>5. ASSUME NEW d \in Devices, DeleteDevice(d) PROVE CleaningInv'
  BY <1>5 DEF DeleteDevice, callbackVars, requestVars, endVars, clientVars
<1>6. ASSUME NEW d \in Devices, WriteReport(d) PROVE CleaningInv'
  BY <1>6 DEF WriteReport, Event, requestVars, endVars, clientVars
<1>7. ASSUME NEW d \in Devices, BufferEvent(d) PROVE CleaningInv'
  BY <1>7 DEF BufferEvent, CallbackReturns, Buffer, deviceVars, requestVars,
    endVars, clientVars
<1>8. ASSUME NEW d \in Devices, TakeRead(d) PROVE CleaningInv'
  BY <1>8 DEF TakeRead, deviceVars, endVars, clientVars
<1>9. ASSUME NEW d \in Devices, CompleteRead(d) PROVE CleaningInv'
  BY <1>9 DEF CompleteRead, Complete, CallbackReturns, deviceVars, endVars,
    clientVars
<1>10. ASSUME NEW d \in Devices, UnmarkFails(d) PROVE CleaningInv'
  BY <1>10 DEF UnmarkFails, deviceVars, requestVars, endVars, clientVars
<1>11. ASSUME NEW d \in Devices, RebufferEvent(d) PROVE CleaningInv'
  BY <1>11 DEF RebufferEvent, CallbackReturns, Buffer, deviceVars,
    requestVars, endVars, clientVars
<1>12. ASSUME NEW c \in Clients, AnswerRead(c) PROVE CleaningInv'
  BY <1>12 DEF AnswerRead, Complete, deviceVars, callbackVars, endVars,
    clientVars
<1>13. ASSUME NEW c \in Clients, KeepRead(c) PROVE CleaningInv'
  BY <1>13 DEF KeepRead, deviceVars, callbackVars, endVars, clientVars
<1>14. ASSUME NEW c \in Clients, MarkFails(c) PROVE CleaningInv'
  BY <1>14 DEF MarkFails, Complete, deviceVars, callbackVars, endVars,
    clientVars
<1>15. ASSUME NEW c \in Clients, QueueFails(c) PROVE CleaningInv'
  BY <1>15 DEF QueueFails, Complete, deviceVars, callbackVars, endVars,
    clientVars
<1>16. ASSUME NEW c \in Clients, CancelRoutine(c) PROVE CleaningInv'
  BY <1>16 DEF CancelRoutine, Complete, deviceVars, callbackVars, endVars,
    clientVars
<1>17. ASSUME NEW c \in Clients, CleanupDevices(c) PROVE CleaningInv'
  BY <1>17 DEF CleanupDevices, Closing, HandleOpen, callbackVars, requestVars,
    clientVars
<1>18. ASSUME NEW c \in Clients, CleanupRequests(c) PROVE CleaningInv'
  BY <1>18 DEF CleanupRequests, deviceVars, callbackVars, clientVars
<1>19. ASSUME NEW c \in Clients, CleanupCompletes(c) PROVE CleaningInv'
  BY <1>19 DEF CleanupCompletes, CompleteIfUnmarked, Complete, deviceVars,
    callbackVars, clientVars
<1>20. ASSUME ReleaseHardware PROVE CleaningInv'
  BY <1>20 DEF ReleaseHardware, deviceVars, callbackVars, clientVars
<1>21. ASSUME NEW c \in Clients, ReleaseCompletes(c) PROVE CleaningInv'
  BY <1>21 DEF ReleaseCompletes, CompleteIfUnmarked, Complete, deviceVars,
    callbackVars, clientVars
<1>22. ASSUME ReleaseDevices PROVE CleaningInv'
  <2>1. \A d \in Devices :
          device'[d] = IF device[d] = "live" THEN "closing" ELSE device[d]
    BY <1>22 DEF ReleaseDevices, Closing
  <2>2. UNCHANGED <<vhf, read, reader, cleanup>>
    BY <1>22 DEF ReleaseDevices, callbackVars, requestVars, clientVars
  <2>3. ASSUME NEW d \in Devices, device'[d] # device[d]
        PROVE  device[d] = "live" /\ device'[d] = "closing"
    BY <2>1, <2>3
  <2>4. ASSUME NEW d \in Devices, device'[d] \in {"none", "destroyed", "closed"}
        PROVE  vhf'[d] = "idle"
    BY <2>2, <2>3, <2>4
  <2>5. ASSUME NEW c \in Clients PROVE ~HandleOpen(c)' => read'[c] # "sent"
    BY <2>2
  <2>6. ASSUME NEW c \in Clients, cleanup'[c] # "no"
        PROVE  /\ ~HandleOpen(c)'
               /\ \A d \in DevicesOf(c) : device'[d] \notin {"starting", "live"}
    BY <2>2, <2>3, <2>6
  <2>7. ASSUME NEW c \in Clients, cleanup'[c] \in {"complete", "done"}
        PROVE  \A d \in DevicesOf(c) : device'[d] # "closing"
    <3>1. \A d \in DevicesOf(c) : d \in Devices /\ device[d] \notin {"live", "closing"}
      BY <2>2, <2>7
    <3>2. QED
      BY <2>3, <3>1
  <2>8. QED
    BY <2>4, <2>5, <2>6, <2>7
<1>23. ASSUME Released PROVE CleaningInv'
  BY <1>23 DEF Released, deviceVars, callbackVars, requestVars, clientVars
<1>24. ASSUME NEW c \in Clients, StartRead(c) PROVE CleaningInv'
  BY <1>24 DEF StartRead, deviceVars, callbackVars, endVars
<1>25. ASSUME NEW c \in Clients, ReadDone(c) PROVE CleaningInv'
  BY <1>25 DEF ReadDone, deviceVars, callbackVars, endVars
<1>26. ASSUME NEW c \in Clients, CancelRead(c) PROVE CleaningInv'
  BY <1>26 DEF CancelRead, Cancelled, deviceVars, callbackVars, endVars
<1>27. ASSUME NEW c \in Clients, LoopEnds(c) PROVE CleaningInv'
  BY <1>27 DEF LoopEnds, deviceVars, callbackVars, requestVars, endVars
<1>28. ASSUME NEW c \in Clients, SetStopEvent(c) PROVE CleaningInv'
  BY <1>28 DEF SetStopEvent, HandleOpen, deviceVars, callbackVars,
    requestVars, endVars
<1>29. ASSUME NEW c \in Clients, RequestStop(c) PROVE CleaningInv'
  BY <1>29 DEF RequestStop, HandleOpen, deviceVars, callbackVars, requestVars,
    endVars
<1>30. ASSUME NEW c \in Clients, ClientDies(c) PROVE CleaningInv'
  BY <1>30 DEF ClientDies, Cancelled, HandleOpen, deviceVars, callbackVars,
    endVars
<1>31. CASE UNCHANGED vars
  BY <1>31 DEF vars, deviceVars, callbackVars, requestVars, endVars,
    clientVars
<1> HIDE DEF TypeInv, OwnerInv, CleaningInv
<1>32. QED
  BY <1>1, <1>2, <1>3, <1>4, <1>5, <1>6, <1>7, <1>8, <1>9, <1>10, <1>11,
    <1>12, <1>13, <1>14, <1>15, <1>16, <1>17, <1>18, <1>19, <1>20, <1>21,
    <1>22, <1>23, <1>24, <1>25, <1>26, <1>27, <1>28, <1>29, <1>30, <1>31 DEF
    Next, VhfStep, ReadStep, CleanupStep, ReaderStep

\* What is kept for a handle: its own devices' events, and after its cleanup
\* only those of a device that another thread destroys.
BufferInv == Home /\ CleanedUp

\* When a callback is under way after the cleanup of the handle, its device is
\* being destroyed by request: the cleanup waited for all others.
LEMMA CallbackAfterCleanup ==
  ASSUME TypeInv, CleaningInv, NEW d \in Devices, vhf[d] # "idle",
         cleanup[Owner[d]] \in {"complete", "done"}
  PROVE  device[d] = "destroying"
<1>1. Owner[d] \in Clients /\ d \in DevicesOf(Owner[d])
  BY OutputAssumption DEF DevicesOf
<1>2. device[d] \notin {"starting", "live", "closing"}
  BY <1>1 DEF CleaningInv
<1>3. device[d] \notin {"none", "destroyed", "closed"}
  BY DEF CleaningInv
<1>4. QED
  BY <1>2, <1>3 DEF TypeInv, TypeOK

\* The device of a buffered event is a device of the driver.
LEMMA BufferedDevices ==
  ASSUME TypeInv, NEW c \in Clients, NEW i \in DOMAIN buffered[c]
  PROVE  buffered[c][i].device \in Devices
<1>1. buffered[c] \in Seq(Events)
  BY DEF TypeInv, TypeOK
<1>2. buffered[c][i] \in Events
  BY <1>1
<1>3. QED
  BY <1>2 DEF Events

\* Steps that take devices away and leave what is buffered alone.
LEMMA DevicesGo ==
  ASSUME TypeInv, BufferInv, UNCHANGED <<buffered, pending>>,
         \A d \in Devices :
           device[d] \in {"destroying", "destroyed"} => device'[d] = device[d],
         \A c \in Clients :
           cleanup'[c] \in {"complete", "done"} => cleanup'[c] = cleanup[c]
  PROVE  BufferInv'
<1>1. Home'
  BY DEF BufferInv, Home
<1>2. ASSUME NEW c \in Clients, cleanup'[c] \in {"complete", "done"}
      PROVE  /\ c \notin pending'
             /\ \A i \in DOMAIN buffered'[c] :
               device'[buffered'[c][i].device] \in {"destroying", "destroyed"}
  BY <1>2, BufferedDevices DEF BufferInv, CleanedUp
<1>3. QED
  BY <1>1, <1>2 DEF BufferInv, CleanedUp

\* A callback that keeps its event.
LEMMA CallbackBuffers ==
  ASSUME TypeInv, CleaningInv, BufferInv, NEW d \in Devices, vhf[d] # "idle",
         Buffer(holds[d]), UNCHANGED <<device, pending, cleanup>>
  PROVE  BufferInv'
<1>1. holds[d] \in Events /\ holds[d].device = d
  BY DEF TypeInv, Carried
<1>2. Owner[d] \in Clients
  BY OutputAssumption
<1>3. buffered' =
        [buffered EXCEPT ![Owner[d]] = Append(buffered[Owner[d]], holds[d])]
  BY <1>1 DEF Buffer
<1>4. buffered \in [Clients -> Seq(Events)]
  BY DEF TypeInv, TypeOK
<1>5. ASSUME NEW c \in Clients, NEW i \in DOMAIN buffered'[c]
      PROVE  \/ i \in DOMAIN buffered[c] /\ buffered'[c][i] = buffered[c][i]
             \/ c = Owner[d] /\ buffered'[c][i] = holds[d]
  <2>1. CASE c = Owner[d]
    <3>1. buffered'[c] = Append(buffered[c], holds[d])
      BY <1>3, <1>4, <2>1
    <3>2. buffered[c] \in Seq(Events)
      BY <1>4
    <3>3. QED
      BY <1>1, <2>1, <3>1, <3>2
  <2>2. CASE c # Owner[d]
    BY <1>3, <1>4, <2>2
  <2>3. QED
    BY <2>1, <2>2
<1>6. Home'
  BY <1>1, <1>5 DEF BufferInv, Home
<1>7. ASSUME NEW c \in Clients, cleanup'[c] \in {"complete", "done"}
      PROVE  /\ c \notin pending'
             /\ \A i \in DOMAIN buffered'[c] :
               device'[buffered'[c][i].device] \in {"destroying", "destroyed"}
  BY <1>1, <1>5, <1>7, CallbackAfterCleanup DEF BufferInv, CleanedUp
<1>8. QED
  BY <1>6, <1>7 DEF BufferInv, CleanedUp

\* An event that is buffered is one of the owner's, and after the cleanup of
\* its handle only a device destroyed by request can still bring one.
LEMMA BufferInvNext ==
  ASSUME TypeInv, OwnerInv, CleaningInv, BufferInv, [Next]_vars PROVE BufferInv'
<1> USE OutputAssumption DEF TypeInv, TypeOK, CleaningInv, BufferInv, Home,
  CleanedUp, HandleOpen, DevicesOf
<1>1. ASSUME NEW d \in Devices, CreateDevice(d) PROVE BufferInv'
  BY <1>1 DEF CreateDevice, HandleOpen, callbackVars, requestVars, endVars,
    clientVars
<1>2. ASSUME NEW d \in Devices, RegisterDevice(d) PROVE BufferInv'
  BY <1>2 DEF RegisterDevice, callbackVars, requestVars, endVars, clientVars
<1>3. ASSUME NEW d \in Devices, DestroyDevice(d) PROVE BufferInv'
  BY <1>3 DEF DestroyDevice, callbackVars, requestVars, endVars, clientVars
<1>4. ASSUME ResetDevices PROVE BufferInv'
  <2>1. UNCHANGED <<buffered, pending>>
    BY <1>4 DEF ResetDevices, requestVars
  <2>2. \A e \in Devices :
          device[e] \in {"destroying", "destroyed"} => device'[e] = device[e]
    BY <1>4 DEF ResetDevices, Closing
  <2>3. \A k \in Clients :
          cleanup'[k] \in {"complete", "done"} => cleanup'[k] = cleanup[k]
    BY <1>4 DEF ResetDevices, endVars
  <2>4. QED
    BY <2>1, <2>2, <2>3, DevicesGo
<1>5. ASSUME NEW d \in Devices, DeleteDevice(d) PROVE BufferInv'
  BY <1>5 DEF DeleteDevice, callbackVars, requestVars, endVars, clientVars
<1>6. ASSUME NEW d \in Devices, WriteReport(d) PROVE BufferInv'
  BY <1>6 DEF WriteReport, Event, requestVars, endVars, clientVars
<1>7. ASSUME NEW d \in Devices, BufferEvent(d) PROVE BufferInv'
  <2>1. /\ vhf[d] # "idle"
        /\ Buffer(holds[d]) /\ UNCHANGED <<device, pending, cleanup>>
    BY <1>7 DEF BufferEvent, deviceVars, requestVars, endVars
  <2>2. QED
    BY <2>1, CallbackBuffers
<1>8. ASSUME NEW d \in Devices, TakeRead(d) PROVE BufferInv'
  BY <1>8 DEF TakeRead, deviceVars, endVars, clientVars
<1>9. ASSUME NEW d \in Devices, CompleteRead(d) PROVE BufferInv'
  BY <1>9 DEF CompleteRead, Complete, CallbackReturns, deviceVars, endVars,
    clientVars
<1>10. ASSUME NEW d \in Devices, UnmarkFails(d) PROVE BufferInv'
  BY <1>10 DEF UnmarkFails, deviceVars, requestVars, endVars, clientVars
<1>11. ASSUME NEW d \in Devices, RebufferEvent(d) PROVE BufferInv'
  <2>1. /\ vhf[d] # "idle"
        /\ Buffer(holds[d]) /\ UNCHANGED <<device, pending, cleanup>>
    BY <1>11 DEF RebufferEvent, deviceVars, requestVars, endVars
  <2>2. QED
    BY <2>1, CallbackBuffers
<1>12. ASSUME NEW c \in Clients, AnswerRead(c) PROVE BufferInv'
  BY <1>12 DEF AnswerRead, Complete, deviceVars, callbackVars, endVars,
    clientVars
<1>13. ASSUME NEW c \in Clients, KeepRead(c) PROVE BufferInv'
  BY <1>13 DEF KeepRead, deviceVars, callbackVars, endVars, clientVars
<1>14. ASSUME NEW c \in Clients, MarkFails(c) PROVE BufferInv'
  BY <1>14 DEF MarkFails, Complete, deviceVars, callbackVars, endVars,
    clientVars
<1>15. ASSUME NEW c \in Clients, QueueFails(c) PROVE BufferInv'
  BY <1>15 DEF QueueFails, Complete, deviceVars, callbackVars, endVars,
    clientVars
<1>16. ASSUME NEW c \in Clients, CancelRoutine(c) PROVE BufferInv'
  BY <1>16 DEF CancelRoutine, Complete, deviceVars, callbackVars, endVars,
    clientVars
<1>17. ASSUME NEW c \in Clients, CleanupDevices(c) PROVE BufferInv'
  <2>1. UNCHANGED <<buffered, pending>>
    BY <1>17 DEF CleanupDevices, requestVars
  <2>2. \A e \in Devices :
          device[e] \in {"destroying", "destroyed"} => device'[e] = device[e]
    BY <1>17 DEF CleanupDevices, Closing
  <2>3. \A k \in Clients :
          cleanup'[k] \in {"complete", "done"} => cleanup'[k] = cleanup[k]
    BY <1>17 DEF CleanupDevices, endVars
  <2>4. QED
    BY <2>1, <2>2, <2>3, DevicesGo
<1>18. ASSUME NEW c \in Clients, CleanupRequests(c) PROVE BufferInv'
  BY <1>18 DEF CleanupRequests, deviceVars, callbackVars, clientVars
<1>19. ASSUME NEW c \in Clients, CleanupCompletes(c) PROVE BufferInv'
  BY <1>19 DEF CleanupCompletes, CompleteIfUnmarked, Complete, deviceVars,
    callbackVars, clientVars
<1>20. ASSUME ReleaseHardware PROVE BufferInv'
  BY <1>20 DEF ReleaseHardware, deviceVars, callbackVars, clientVars
<1>21. ASSUME NEW c \in Clients, ReleaseCompletes(c) PROVE BufferInv'
  BY <1>21 DEF ReleaseCompletes, CompleteIfUnmarked, Complete, deviceVars,
    callbackVars, clientVars
<1>22. ASSUME ReleaseDevices PROVE BufferInv'
  <2>1. UNCHANGED <<buffered, pending>>
    BY <1>22 DEF ReleaseDevices, requestVars
  <2>2. \A e \in Devices :
          device[e] \in {"destroying", "destroyed"} => device'[e] = device[e]
    BY <1>22 DEF ReleaseDevices, Closing
  <2>3. \A k \in Clients :
          cleanup'[k] \in {"complete", "done"} => cleanup'[k] = cleanup[k]
    BY <1>22 DEF ReleaseDevices, endVars
  <2>4. QED
    BY <2>1, <2>2, <2>3, DevicesGo
<1>23. ASSUME Released PROVE BufferInv'
  BY <1>23 DEF Released, deviceVars, callbackVars, requestVars, clientVars
<1>24. ASSUME NEW c \in Clients, StartRead(c) PROVE BufferInv'
  BY <1>24 DEF StartRead, deviceVars, callbackVars, endVars
<1>25. ASSUME NEW c \in Clients, ReadDone(c) PROVE BufferInv'
  BY <1>25 DEF ReadDone, deviceVars, callbackVars, endVars
<1>26. ASSUME NEW c \in Clients, CancelRead(c) PROVE BufferInv'
  BY <1>26 DEF CancelRead, Cancelled, deviceVars, callbackVars, endVars
<1>27. ASSUME NEW c \in Clients, LoopEnds(c) PROVE BufferInv'
  BY <1>27 DEF LoopEnds, deviceVars, callbackVars, requestVars, endVars
<1>28. ASSUME NEW c \in Clients, SetStopEvent(c) PROVE BufferInv'
  BY <1>28 DEF SetStopEvent, HandleOpen, deviceVars, callbackVars,
    requestVars, endVars
<1>29. ASSUME NEW c \in Clients, RequestStop(c) PROVE BufferInv'
  BY <1>29 DEF RequestStop, HandleOpen, deviceVars, callbackVars, requestVars,
    endVars
<1>30. ASSUME NEW c \in Clients, ClientDies(c) PROVE BufferInv'
  BY <1>30 DEF ClientDies, Cancelled, HandleOpen, deviceVars, callbackVars,
    endVars
<1>31. CASE UNCHANGED vars
  BY <1>31 DEF vars, deviceVars, callbackVars, requestVars, endVars,
    clientVars
<1> HIDE DEF TypeInv, TypeOK, CleaningInv, BufferInv, Home, CleanedUp
<1>32. QED
  BY <1>1, <1>2, <1>3, <1>4, <1>5, <1>6, <1>7, <1>8, <1>9, <1>10, <1>11,
    <1>12, <1>13, <1>14, <1>15, <1>16, <1>17, <1>18, <1>19, <1>20, <1>21,
    <1>22, <1>23, <1>24, <1>25, <1>26, <1>27, <1>28, <1>29, <1>30, <1>31 DEF
    Next, VhfStep, ReadStep, CleanupStep, ReaderStep

-----------------------------------------------------------------------------
(* The reports of a device in a sequence: which ones, and in which order.  *)

Number(e, d) == IF e # NoEvent /\ e.device = d THEN {e.n} ELSE {}
Before(S, T) == \A m \in S, n \in T : m < n
Outputs == Events \cup {NoEvent}

\* An event is not the absence of one.
LEMMA EventIsSome == \A e \in Events : e # NoEvent
<1>1. SUFFICES ASSUME NEW e \in Events
               PROVE  e # NoEvent
  OBVIOUS
<1>2. DOMAIN e = {"device", "n"} /\ DOMAIN NoEvent = {"device"}
  BY <1>1 DEF Events, NoEvent
<1>3. QED
  BY <1>2

\* Where s \o t has reports of d is where s has them, and behind it where t has them.
LEMMA Joined ==
  ASSUME NEW s \in Seq(Outputs), NEW t \in Seq(Outputs), NEW d
  PROVE  /\ Numbers(s \o t, d) = Numbers(s, d) \cup Numbers(t, d)
         /\ Growing(s \o t, d) <=>
              Growing(s, d) /\ Growing(t, d) /\ Before(Numbers(s, d), Numbers(t, d))
<1> DEFINE k == Len(s)
           m == Len(t)
           u == s \o t
           J == {k + j : j \in Of(t, d)}
<1>1. /\ k \in Nat /\ m \in Nat /\ DOMAIN s = 1..k /\ DOMAIN t = 1..m
      /\ DOMAIN u = 1..(k + m)
      /\ \A i \in 1..k : u[i] = s[i]
      /\ \A j \in 1..m : u[k + j] = t[j]
  OBVIOUS
<1> HIDE DEF k, m, u
<1>2. /\ Of(s, d) \subseteq 1..k /\ Of(t, d) \subseteq 1..m
      /\ Of(u, d) \subseteq 1..(k + m)
  BY <1>1 DEF Of
<1>3. \A i \in 1..k : i \in Of(u, d) <=> i \in Of(s, d)
  BY <1>1 DEF Of
<1>4. \A j \in 1..m : (k + j) \in Of(u, d) <=> j \in Of(t, d)
  BY <1>1 DEF Of
<1>5. \A i \in 1..(k + m) : i \in 1..k \/ \E j \in 1..m : i = k + j
  <2>1. SUFFICES ASSUME NEW i \in 1..(k + m), i > k
                 PROVE  \E j \in 1..m : i = k + j
    BY <1>1
  <2>2. (i - k) \in 1..m /\ i = k + (i - k)
    BY <1>1, <2>1
  <2>3. QED
    BY <2>2
<1>6. \A i \in Of(u, d) : i \in Of(s, d) \/ \E j \in Of(t, d) : i = k + j
  BY <1>2, <1>3, <1>4, <1>5
<1>7. /\ \A i \in Of(s, d) : i \in Of(u, d) /\ u[i] = s[i]
      /\ \A j \in Of(t, d) : (k + j) \in Of(u, d) /\ u[k + j] = t[j]
  BY <1>1, <1>2, <1>3, <1>4
<1>8. Numbers(u, d) = Numbers(s, d) \cup Numbers(t, d)
  BY <1>6, <1>7 DEF Numbers
<1>9. ASSUME Growing(u, d)
      PROVE  Growing(s, d) /\ Growing(t, d) /\ Before(Numbers(s, d), Numbers(t, d))
  <2>1. Growing(s, d)
    BY <1>7, <1>9 DEF Growing
  <2>2. Growing(t, d)
    <3>1. SUFFICES ASSUME NEW i \in Of(t, d), NEW j \in Of(t, d), i < j
                   PROVE  t[i].n < t[j].n
      BY DEF Growing
    <3>2. k + i < k + j
      BY <1>1, <1>2, <3>1
    <3>3. QED
      BY <1>7, <1>9, <3>2 DEF Growing
  <2>3. ASSUME NEW i \in Of(s, d), NEW j \in Of(t, d)
        PROVE  s[i].n < t[j].n
    <3>1. i < k + j
      BY <1>1, <1>2, <2>3
    <3>2. QED
      BY <1>7, <1>9, <3>1 DEF Growing
  <2>4. QED
    BY <2>1, <2>2, <2>3 DEF Before, Numbers
<1>10. ASSUME Growing(s, d), Growing(t, d), Before(Numbers(s, d), Numbers(t, d))
       PROVE  Growing(u, d)
  <2>1. SUFFICES ASSUME NEW i \in Of(u, d), NEW j \in Of(u, d), i < j
                 PROVE  u[i].n < u[j].n
    BY DEF Growing
  <2>2. CASE i \in Of(s, d) /\ j \in Of(s, d)
    BY <1>7, <1>10, <2>1, <2>2 DEF Growing
  <2>3. CASE i \in Of(s, d) /\ \E b \in Of(t, d) : j = k + b
    BY <1>7, <1>10, <2>3 DEF Before, Numbers
  <2>4. ASSUME NEW a \in Of(t, d), i = k + a
        PROVE  u[i].n < u[j].n
    <3>1. j \notin 1..k
      BY <1>1, <1>2, <2>1, <2>4
    <3>2. PICK b \in Of(t, d) : j = k + b
      BY <1>2, <1>6, <3>1
    <3>3. a < b
      BY <1>1, <1>2, <2>1, <2>4, <3>2
    <3>4. QED
      BY <1>7, <1>10, <2>4, <3>2, <3>3 DEF Growing
  <2>5. QED
    BY <1>6, <2>2, <2>3, <2>4
<1>11. QED
  BY <1>8, <1>9, <1>10 DEF u

\* A sequence of one.
LEMMA Single ==
  ASSUME NEW e \in Outputs, NEW d
  PROVE  Numbers(<<e>>, d) = Number(e, d) /\ Growing(<<e>>, d)
<1>1. DOMAIN <<e>> = {1} /\ <<e>>[1] = e
  OBVIOUS
<1>2. Of(<<e>>, d) = IF e # NoEvent /\ e.device = d THEN {1} ELSE {}
  BY <1>1 DEF Of
<1>3. QED
  BY <1>1, <1>2 DEF Numbers, Number, Growing

\* A sequence of none.
LEMMA Nothing == \A d : Numbers(<<>>, d) = {} /\ Growing(<<>>, d)
BY DEF Numbers, Growing, Of

\* An event is appended.
LEMMA Appended ==
  ASSUME NEW s \in Seq(Events), NEW e \in Events, NEW d
  PROVE  /\ Numbers(Append(s, e), d) = Numbers(s, d) \cup Number(e, d)
         /\ Growing(Append(s, e), d) <=>
              Growing(s, d) /\ Before(Numbers(s, d), Number(e, d))
<1>1. s \in Seq(Outputs) /\ <<e>> \in Seq(Outputs) /\ e \in Outputs
  BY DEF Outputs
<1>2. Append(s, e) = s \o <<e>>
  OBVIOUS
<1>3. /\ Numbers(s \o <<e>>, d) = Numbers(s, d) \cup Numbers(<<e>>, d)
      /\ Growing(s \o <<e>>, d) <=>
           Growing(s, d) /\ Growing(<<e>>, d) /\ Before(Numbers(s, d), Numbers(<<e>>, d))
  BY <1>1, Joined
<1>4. Numbers(<<e>>, d) = Number(e, d) /\ Growing(<<e>>, d)
  BY <1>1, Single
<1>5. QED
  BY <1>2, <1>3, <1>4

\* The first event is taken.
LEMMA Parted ==
  ASSUME NEW s \in Seq(Events), s # <<>>, NEW d
  PROVE  /\ Numbers(s, d) = Number(Head(s), d) \cup Numbers(Tail(s), d)
         /\ Growing(s, d) =>
              Growing(Tail(s), d) /\ Before(Number(Head(s), d), Numbers(Tail(s), d))
<1>1. Head(s) \in Events /\ Tail(s) \in Seq(Events)
  OBVIOUS
<1>2. <<Head(s)>> \in Seq(Outputs) /\ Tail(s) \in Seq(Outputs) /\ Head(s) \in Outputs
  BY <1>1 DEF Outputs
<1>3. s = <<Head(s)>> \o Tail(s)
  OBVIOUS
<1>4. /\ Numbers(<<Head(s)>> \o Tail(s), d)
           = Numbers(<<Head(s)>>, d) \cup Numbers(Tail(s), d)
      /\ Growing(<<Head(s)>> \o Tail(s), d) <=>
           /\ Growing(<<Head(s)>>, d) /\ Growing(Tail(s), d)
           /\ Before(Numbers(<<Head(s)>>, d), Numbers(Tail(s), d))
  BY <1>2, Joined
<1>5. Numbers(<<Head(s)>>, d) = Number(Head(s), d)
  BY <1>2, Single
<1>6. QED
  BY <1>3, <1>4, <1>5

-----------------------------------------------------------------------------
(* How an output report gets to its client.                                *)

\* A read has a result only when it is completed; one that was cancelled is that of a
\* thread that stops, and a handle is cleaned up after its threads have ended.
ReadInv ==
  \A c \in Clients :
    /\ read[c] # "done" => result[c] = NoEvent
    /\ reader[c] \in {"loop", "wait"} =>
         read[c] \notin {"sent_canceled", "canceling", "canceled"}
    /\ reader[c] = "drain" => stop[c] # "no"
    /\ cleanup[c] # "no" => ~HandleOpen(c)

\* A callback carries the report that was written last.
HoldsNewest ==
  \A d \in Devices :
    /\ vhf[d] = "idle" => holds[d] = NoEvent
    /\ vhf[d] # "idle" => holds[d].n = sent[d]

\* A callback whose read was being cancelled: nobody has that read, nor ever will.
Forsaken ==
  \A d \in Devices : vhf[d] = "rebuffer" =>
    /\ read[Owner[d]] \in {"canceling", "canceled"}
    /\ \A p \in Parties : ~Owns(p, Owner[d])

\* A read waits only while nothing is buffered.
WaitsForEvent == \A c \in pending : buffered[c] = <<>>

\* Every action that completes a read finds it not completed.
LEMMA ReadInvNext ==
  ASSUME TypeInv, OwnerInv, ReadInv, [Next]_vars PROVE ReadInv'
<1> USE OutputAssumption DEF ReadInv, TypeInv, TypeOK, HandleOpen, NoneBetween, OwnerInv, Marked
<1>0. ASSUME UNCHANGED <<read, result, reader, stop, cleanup>> PROVE ReadInv'
  BY <1>0
<1>1. ASSUME NEW d \in Devices, CreateDevice(d) PROVE ReadInv'
  BY <1>0, <1>1 DEF CreateDevice, callbackVars, requestVars, endVars, clientVars
<1>2. ASSUME NEW d \in Devices, RegisterDevice(d) PROVE ReadInv'
  BY <1>0, <1>2 DEF RegisterDevice, callbackVars, requestVars, endVars, clientVars
<1>3. ASSUME NEW d \in Devices, DestroyDevice(d) PROVE ReadInv'
  BY <1>0, <1>3 DEF DestroyDevice, callbackVars, requestVars, endVars, clientVars
<1>4. ASSUME ResetDevices PROVE ReadInv'
  BY <1>0, <1>4 DEF ResetDevices, callbackVars, requestVars, endVars, clientVars
<1>5. ASSUME NEW d \in Devices, DeleteDevice(d) PROVE ReadInv'
  BY <1>0, <1>5 DEF DeleteDevice, callbackVars, requestVars, endVars, clientVars
<1>6. ASSUME NEW d \in Devices, WriteReport(d) PROVE ReadInv'
  BY <1>0, <1>6 DEF WriteReport, requestVars, endVars, clientVars
<1>7. ASSUME NEW d \in Devices, BufferEvent(d) PROVE ReadInv'
  BY <1>0, <1>7 DEF BufferEvent, deviceVars, requestVars, endVars, clientVars
<1>8. ASSUME NEW d \in Devices, TakeRead(d) PROVE ReadInv'
  BY <1>0, <1>8 DEF TakeRead, deviceVars, endVars, clientVars
<1>9. ASSUME NEW d \in Devices, CompleteRead(d) PROVE ReadInv'
  BY <1>9 DEF CompleteRead, Complete, CallbackReturns, deviceVars, endVars, clientVars
<1>10. ASSUME NEW d \in Devices, UnmarkFails(d) PROVE ReadInv'
  BY <1>0, <1>10 DEF UnmarkFails, deviceVars, requestVars, endVars, clientVars
<1>11. ASSUME NEW d \in Devices, RebufferEvent(d) PROVE ReadInv'
  BY <1>0, <1>11 DEF RebufferEvent, deviceVars, requestVars, endVars, clientVars
<1>12. ASSUME NEW c \in Clients, AnswerRead(c) PROVE ReadInv'
  BY <1>12 DEF AnswerRead, Complete, deviceVars, callbackVars, endVars, clientVars
<1>13. ASSUME NEW c \in Clients, KeepRead(c) PROVE ReadInv'
  BY <1>13 DEF KeepRead, deviceVars, callbackVars, endVars, clientVars
<1>14. ASSUME NEW c \in Clients, MarkFails(c) PROVE ReadInv'
  BY <1>14 DEF MarkFails, Complete, deviceVars, callbackVars, endVars, clientVars
<1>15. ASSUME NEW c \in Clients, QueueFails(c) PROVE ReadInv'
  BY <1>15 DEF QueueFails, Complete, deviceVars, callbackVars, endVars, clientVars
<1>16. ASSUME NEW c \in Clients, CancelRoutine(c) PROVE ReadInv'
  BY <1>16 DEF CancelRoutine, Complete, deviceVars, callbackVars, endVars, clientVars
<1>17. ASSUME NEW c \in Clients, CleanupDevices(c) PROVE ReadInv'
  BY <1>17 DEF CleanupDevices, Closing, HandleOpen, callbackVars, requestVars, clientVars
<1>18. ASSUME NEW c \in Clients, CleanupRequests(c) PROVE ReadInv'
  BY <1>18 DEF CleanupRequests, deviceVars, callbackVars, clientVars
<1>19. ASSUME NEW c \in Clients, CleanupCompletes(c) PROVE ReadInv'
  BY <1>19 DEF CleanupCompletes, CompleteIfUnmarked, Complete, deviceVars, callbackVars,
    clientVars
<1>20. ASSUME ReleaseHardware PROVE ReadInv'
  BY <1>0, <1>20 DEF ReleaseHardware, deviceVars, callbackVars, clientVars
<1>21. ASSUME NEW c \in Clients, ReleaseCompletes(c) PROVE ReadInv'
  BY <1>21 DEF ReleaseCompletes, CompleteIfUnmarked, Complete, deviceVars, callbackVars,
    clientVars
<1>22. ASSUME ReleaseDevices PROVE ReadInv'
  BY <1>0, <1>22 DEF ReleaseDevices, callbackVars, requestVars, clientVars
<1>23. ASSUME Released PROVE ReadInv'
  BY <1>0, <1>23 DEF Released, deviceVars, callbackVars, requestVars, clientVars
<1>24. ASSUME NEW c \in Clients, StartRead(c) PROVE ReadInv'
  BY <1>24 DEF StartRead, deviceVars, callbackVars, endVars
<1>25. ASSUME NEW c \in Clients, ReadDone(c) PROVE ReadInv'
  BY <1>25 DEF ReadDone, deviceVars, callbackVars, endVars
<1>26. ASSUME NEW c \in Clients, CancelRead(c) PROVE ReadInv'
  BY <1>26 DEF CancelRead, Cancelled, deviceVars, callbackVars, endVars
<1>27. ASSUME NEW c \in Clients, LoopEnds(c) PROVE ReadInv'
  BY <1>27 DEF LoopEnds, deviceVars, callbackVars, requestVars, endVars
<1>28. ASSUME NEW c \in Clients, SetStopEvent(c) PROVE ReadInv'
  BY <1>28 DEF SetStopEvent, HandleOpen, deviceVars, callbackVars, requestVars, endVars
<1>29. ASSUME NEW c \in Clients, RequestStop(c) PROVE ReadInv'
  BY <1>29 DEF RequestStop, HandleOpen, deviceVars, callbackVars, requestVars, endVars
<1>30. ASSUME NEW c \in Clients, ClientDies(c) PROVE ReadInv'
  BY <1>30 DEF ClientDies, Cancelled, HandleOpen, deviceVars, callbackVars, endVars
<1>31. CASE UNCHANGED vars
  BY <1>0, <1>31 DEF vars, deviceVars, callbackVars, requestVars, endVars, clientVars
<1> HIDE DEF ReadInv, TypeInv, TypeOK, HandleOpen, NoneBetween, OwnerInv, Marked
<1>32. QED
  BY <1>1, <1>2, <1>3, <1>4, <1>5, <1>6, <1>7, <1>8, <1>9, <1>10, <1>11, <1>12, <1>13,
    <1>14, <1>15, <1>16, <1>17, <1>18, <1>19, <1>20, <1>21, <1>22, <1>23, <1>24, <1>25,
    <1>26, <1>27, <1>28, <1>29, <1>30, <1>31 DEF
    Next, VhfStep, ReadStep, CleanupStep, ReaderStep

\* A callback comes with a report and leaves without.
LEMMA HoldsNewestNext ==
  ASSUME TypeInv, HoldsNewest, [Next]_vars PROVE HoldsNewest'
<1> USE OutputAssumption DEF HoldsNewest, TypeInv, TypeOK, Carried
<1>0. ASSUME UNCHANGED <<vhf, holds, sent>> PROVE HoldsNewest'
  BY <1>0
<1>1. ASSUME NEW d \in Devices, CreateDevice(d) PROVE HoldsNewest'
  BY <1>0, <1>1 DEF CreateDevice, callbackVars, requestVars, endVars, clientVars
<1>2. ASSUME NEW d \in Devices, RegisterDevice(d) PROVE HoldsNewest'
  BY <1>0, <1>2 DEF RegisterDevice, callbackVars, requestVars, endVars, clientVars
<1>3. ASSUME NEW d \in Devices, DestroyDevice(d) PROVE HoldsNewest'
  BY <1>0, <1>3 DEF DestroyDevice, callbackVars, requestVars, endVars, clientVars
<1>4. ASSUME ResetDevices PROVE HoldsNewest'
  BY <1>0, <1>4 DEF ResetDevices, callbackVars, requestVars, endVars, clientVars
<1>5. ASSUME NEW d \in Devices, DeleteDevice(d) PROVE HoldsNewest'
  BY <1>0, <1>5 DEF DeleteDevice, callbackVars, requestVars, endVars, clientVars
<1>6. ASSUME NEW d \in Devices, WriteReport(d) PROVE HoldsNewest'
  BY <1>6 DEF WriteReport, Event, requestVars, endVars, clientVars
<1>7. ASSUME NEW d \in Devices, BufferEvent(d) PROVE HoldsNewest'
  BY <1>7 DEF BufferEvent, CallbackReturns, Buffer, deviceVars, requestVars, endVars,
    clientVars
<1>8. ASSUME NEW d \in Devices, TakeRead(d) PROVE HoldsNewest'
  BY <1>8 DEF TakeRead, deviceVars, endVars, clientVars
<1>9. ASSUME NEW d \in Devices, CompleteRead(d) PROVE HoldsNewest'
  BY <1>9 DEF CompleteRead, Complete, CallbackReturns, deviceVars, endVars, clientVars
<1>10. ASSUME NEW d \in Devices, UnmarkFails(d) PROVE HoldsNewest'
  BY <1>10 DEF UnmarkFails, deviceVars, requestVars, endVars, clientVars
<1>11. ASSUME NEW d \in Devices, RebufferEvent(d) PROVE HoldsNewest'
  BY <1>11 DEF RebufferEvent, CallbackReturns, Buffer, deviceVars, requestVars, endVars,
    clientVars
<1>12. ASSUME NEW c \in Clients, AnswerRead(c) PROVE HoldsNewest'
  BY <1>0, <1>12 DEF AnswerRead, deviceVars, callbackVars, endVars, clientVars
<1>13. ASSUME NEW c \in Clients, KeepRead(c) PROVE HoldsNewest'
  BY <1>0, <1>13 DEF KeepRead, deviceVars, callbackVars, endVars, clientVars
<1>14. ASSUME NEW c \in Clients, MarkFails(c) PROVE HoldsNewest'
  BY <1>0, <1>14 DEF MarkFails, deviceVars, callbackVars, endVars, clientVars
<1>15. ASSUME NEW c \in Clients, QueueFails(c) PROVE HoldsNewest'
  BY <1>0, <1>15 DEF QueueFails, deviceVars, callbackVars, endVars, clientVars
<1>16. ASSUME NEW c \in Clients, CancelRoutine(c) PROVE HoldsNewest'
  BY <1>0, <1>16 DEF CancelRoutine, deviceVars, callbackVars, endVars, clientVars
<1>17. ASSUME NEW c \in Clients, CleanupDevices(c) PROVE HoldsNewest'
  BY <1>0, <1>17 DEF CleanupDevices, callbackVars, requestVars, clientVars
<1>18. ASSUME NEW c \in Clients, CleanupRequests(c) PROVE HoldsNewest'
  BY <1>0, <1>18 DEF CleanupRequests, deviceVars, callbackVars, clientVars
<1>19. ASSUME NEW c \in Clients, CleanupCompletes(c) PROVE HoldsNewest'
  BY <1>0, <1>19 DEF CleanupCompletes, deviceVars, callbackVars, clientVars
<1>20. ASSUME ReleaseHardware PROVE HoldsNewest'
  BY <1>0, <1>20 DEF ReleaseHardware, deviceVars, callbackVars, clientVars
<1>21. ASSUME NEW c \in Clients, ReleaseCompletes(c) PROVE HoldsNewest'
  BY <1>0, <1>21 DEF ReleaseCompletes, deviceVars, callbackVars, clientVars
<1>22. ASSUME ReleaseDevices PROVE HoldsNewest'
  BY <1>0, <1>22 DEF ReleaseDevices, callbackVars, requestVars, clientVars
<1>23. ASSUME Released PROVE HoldsNewest'
  BY <1>0, <1>23 DEF Released, deviceVars, callbackVars, requestVars, clientVars
<1>24. ASSUME NEW c \in Clients, StartRead(c) PROVE HoldsNewest'
  BY <1>0, <1>24 DEF StartRead, deviceVars, callbackVars, endVars
<1>25. ASSUME NEW c \in Clients, ReadDone(c) PROVE HoldsNewest'
  BY <1>0, <1>25 DEF ReadDone, deviceVars, callbackVars, endVars
<1>26. ASSUME NEW c \in Clients, CancelRead(c) PROVE HoldsNewest'
  BY <1>0, <1>26 DEF CancelRead, deviceVars, callbackVars, endVars
<1>27. ASSUME NEW c \in Clients, LoopEnds(c) PROVE HoldsNewest'
  BY <1>0, <1>27 DEF LoopEnds, deviceVars, callbackVars, requestVars, endVars
<1>28. ASSUME NEW c \in Clients, SetStopEvent(c) PROVE HoldsNewest'
  BY <1>0, <1>28 DEF SetStopEvent, deviceVars, callbackVars, requestVars, endVars
<1>29. ASSUME NEW c \in Clients, RequestStop(c) PROVE HoldsNewest'
  BY <1>0, <1>29 DEF RequestStop, deviceVars, callbackVars, requestVars, endVars
<1>30. ASSUME NEW c \in Clients, ClientDies(c) PROVE HoldsNewest'
  BY <1>0, <1>30 DEF ClientDies, deviceVars, callbackVars, endVars
<1>31. CASE UNCHANGED vars
  BY <1>0, <1>31 DEF vars, deviceVars, callbackVars, requestVars, endVars, clientVars
<1> HIDE DEF HoldsNewest, TypeInv, TypeOK, Carried
<1>32. QED
  BY <1>1, <1>2, <1>3, <1>4, <1>5, <1>6, <1>7, <1>8, <1>9, <1>10, <1>11, <1>12, <1>13,
    <1>14, <1>15, <1>16, <1>17, <1>18, <1>19, <1>20, <1>21, <1>22, <1>23, <1>24, <1>25,
    <1>26, <1>27, <1>28, <1>29, <1>30, <1>31 DEF
    Next, VhfStep, ReadStep, CleanupStep, ReaderStep

\* Only the cancel routine still comes to such a read, and leaves it alone.
LEMMA ForsakenNext ==
  ASSUME TypeInv, OwnerInv, Forsaken, [Next]_vars PROVE Forsaken'
<1> USE OutputAssumption DEF Forsaken, TypeInv, TypeOK, OwnerInv, OneOwner, NoneBetween,
      Owns, Parties, Callbacks, DevicesOf, Marked
<1>0. ASSUME UNCHANGED <<vhf, read, pending, cleanup, taken>> PROVE Forsaken'
  BY <1>0
<1>1. ASSUME NEW d \in Devices, CreateDevice(d) PROVE Forsaken'
  BY <1>0, <1>1 DEF CreateDevice, callbackVars, requestVars, endVars, clientVars
<1>2. ASSUME NEW d \in Devices, RegisterDevice(d) PROVE Forsaken'
  BY <1>0, <1>2 DEF RegisterDevice, callbackVars, requestVars, endVars, clientVars
<1>3. ASSUME NEW d \in Devices, DestroyDevice(d) PROVE Forsaken'
  BY <1>0, <1>3 DEF DestroyDevice, callbackVars, requestVars, endVars, clientVars
<1>4. ASSUME ResetDevices PROVE Forsaken'
  BY <1>0, <1>4 DEF ResetDevices, callbackVars, requestVars, endVars, clientVars
<1>5. ASSUME NEW d \in Devices, DeleteDevice(d) PROVE Forsaken'
  BY <1>0, <1>5 DEF DeleteDevice, callbackVars, requestVars, endVars, clientVars
<1>6. ASSUME NEW d \in Devices, WriteReport(d) PROVE Forsaken'
  BY <1>6 DEF WriteReport, Event, requestVars, endVars, clientVars
<1>7. ASSUME NEW d \in Devices, BufferEvent(d) PROVE Forsaken'
  BY <1>7 DEF BufferEvent, CallbackReturns, Buffer, deviceVars, requestVars, endVars,
    clientVars
<1>8. ASSUME NEW d \in Devices, TakeRead(d) PROVE Forsaken'
  BY <1>8 DEF TakeRead, deviceVars, endVars, clientVars
<1>9. ASSUME NEW d \in Devices, CompleteRead(d) PROVE Forsaken'
  BY <1>9 DEF CompleteRead, Complete, CallbackReturns, deviceVars, endVars, clientVars
<1>10. ASSUME NEW d \in Devices, UnmarkFails(d) PROVE Forsaken'
  BY <1>10 DEF UnmarkFails, deviceVars, requestVars, endVars, clientVars
<1>11. ASSUME NEW d \in Devices, RebufferEvent(d) PROVE Forsaken'
  BY <1>11 DEF RebufferEvent, CallbackReturns, Buffer, deviceVars, requestVars, endVars,
    clientVars
<1>12. ASSUME NEW c \in Clients, AnswerRead(c) PROVE Forsaken'
  BY <1>12 DEF AnswerRead, Complete, deviceVars, callbackVars, endVars, clientVars
<1>13. ASSUME NEW c \in Clients, KeepRead(c) PROVE Forsaken'
  BY <1>13 DEF KeepRead, deviceVars, callbackVars, endVars, clientVars
<1>14. ASSUME NEW c \in Clients, MarkFails(c) PROVE Forsaken'
  BY <1>14 DEF MarkFails, Complete, deviceVars, callbackVars, endVars, clientVars
<1>15. ASSUME NEW c \in Clients, QueueFails(c) PROVE Forsaken'
  BY <1>15 DEF QueueFails, Complete, deviceVars, callbackVars, endVars, clientVars
<1>16. ASSUME NEW c \in Clients, CancelRoutine(c) PROVE Forsaken'
  BY <1>16 DEF CancelRoutine, Complete, deviceVars, callbackVars, endVars, clientVars
<1>17. ASSUME NEW c \in Clients, CleanupDevices(c) PROVE Forsaken'
  BY <1>17 DEF CleanupDevices, Closing, HandleOpen, callbackVars, requestVars, clientVars
<1>18. ASSUME NEW c \in Clients, CleanupRequests(c) PROVE Forsaken'
  BY <1>18 DEF CleanupRequests, deviceVars, callbackVars, clientVars
<1>19. ASSUME NEW c \in Clients, CleanupCompletes(c) PROVE Forsaken'
  BY <1>19 DEF CleanupCompletes, CompleteIfUnmarked, Complete, deviceVars, callbackVars,
    clientVars
<1>20. ASSUME ReleaseHardware PROVE Forsaken'
  BY <1>20 DEF ReleaseHardware, deviceVars, callbackVars, clientVars
<1>21. ASSUME NEW c \in Clients, ReleaseCompletes(c) PROVE Forsaken'
  BY <1>21 DEF ReleaseCompletes, CompleteIfUnmarked, Complete, deviceVars, callbackVars,
    clientVars
<1>22. ASSUME ReleaseDevices PROVE Forsaken'
  BY <1>0, <1>22 DEF ReleaseDevices, callbackVars, requestVars, clientVars
<1>23. ASSUME Released PROVE Forsaken'
  BY <1>0, <1>23 DEF Released, deviceVars, callbackVars, requestVars, clientVars
<1>24. ASSUME NEW c \in Clients, StartRead(c) PROVE Forsaken'
  BY <1>24 DEF StartRead, deviceVars, callbackVars, endVars
<1>25. ASSUME NEW c \in Clients, ReadDone(c) PROVE Forsaken'
  BY <1>25 DEF ReadDone, deviceVars, callbackVars, endVars
<1>26. ASSUME NEW c \in Clients, CancelRead(c) PROVE Forsaken'
  BY <1>26 DEF CancelRead, Cancelled, deviceVars, callbackVars, endVars
<1>27. ASSUME NEW c \in Clients, LoopEnds(c) PROVE Forsaken'
  BY <1>0, <1>27 DEF LoopEnds, deviceVars, callbackVars, requestVars, endVars
<1>28. ASSUME NEW c \in Clients, SetStopEvent(c) PROVE Forsaken'
  BY <1>0, <1>28 DEF SetStopEvent, deviceVars, callbackVars, requestVars, endVars
<1>29. ASSUME NEW c \in Clients, RequestStop(c) PROVE Forsaken'
  BY <1>0, <1>29 DEF RequestStop, deviceVars, callbackVars, requestVars, endVars
<1>30. ASSUME NEW c \in Clients, ClientDies(c) PROVE Forsaken'
  BY <1>30 DEF ClientDies, Cancelled, HandleOpen, deviceVars, callbackVars, endVars
<1>31. CASE UNCHANGED vars
  BY <1>0, <1>31 DEF vars, deviceVars, callbackVars, requestVars, endVars, clientVars
<1> HIDE DEF Forsaken, TypeInv, TypeOK, OwnerInv, OneOwner, NoneBetween, Owns, Parties,
      Callbacks, DevicesOf, Marked
<1>32. QED
  BY <1>1, <1>2, <1>3, <1>4, <1>5, <1>6, <1>7, <1>8, <1>9, <1>10, <1>11, <1>12, <1>13,
    <1>14, <1>15, <1>16, <1>17, <1>18, <1>19, <1>20, <1>21, <1>22, <1>23, <1>24, <1>25,
    <1>26, <1>27, <1>28, <1>29, <1>30, <1>31 DEF
    Next, VhfStep, ReadStep, CleanupStep, ReaderStep

\* What Buffer does to the buffers.
LEMMA BufferGrows ==
  ASSUME TypeInv, NEW d \in Devices, vhf[d] # "idle", Buffer(holds[d])
  PROVE  /\ buffered'[Owner[d]] = Append(buffered[Owner[d]], holds[d])
         /\ \A c \in Clients : c # Owner[d] => buffered'[c] = buffered[c]
         /\ holds[d] \in Events /\ holds[d].device = d /\ Owner[d] \in Clients
         /\ buffered[Owner[d]] \in Seq(Events)
<1>1. holds[d] \in Events /\ holds[d].device = d
  BY DEF TypeInv, Carried
<1>2. Owner[d] \in Clients /\ buffered \in [Clients -> Seq(Events)]
  BY OutputAssumption DEF TypeInv, TypeOK
<1>3. buffered' = [buffered EXCEPT ![Owner[d]] = Append(buffered[Owner[d]], holds[d])]
  BY <1>1 DEF Buffer
<1>4. QED
  BY <1>1, <1>2, <1>3

\* A callback that keeps its event has found no read that waits.
LEMMA WaitsForEventNext ==
  ASSUME TypeInv, Forsaken, WaitsForEvent, [Next]_vars PROVE WaitsForEvent'
<1> USE OutputAssumption DEF Forsaken, TypeInv, TypeOK, Owns, Parties, WaitsForEvent
<1>0. ASSUME UNCHANGED <<buffered, pending>> PROVE WaitsForEvent'
  BY <1>0
<1>1. ASSUME NEW d \in Devices, CreateDevice(d) PROVE WaitsForEvent'
  BY <1>0, <1>1 DEF CreateDevice, callbackVars, requestVars, endVars, clientVars
<1>2. ASSUME NEW d \in Devices, RegisterDevice(d) PROVE WaitsForEvent'
  BY <1>0, <1>2 DEF RegisterDevice, callbackVars, requestVars, endVars, clientVars
<1>3. ASSUME NEW d \in Devices, DestroyDevice(d) PROVE WaitsForEvent'
  BY <1>0, <1>3 DEF DestroyDevice, callbackVars, requestVars, endVars, clientVars
<1>4. ASSUME ResetDevices PROVE WaitsForEvent'
  BY <1>0, <1>4 DEF ResetDevices, callbackVars, requestVars, endVars, clientVars
<1>5. ASSUME NEW d \in Devices, DeleteDevice(d) PROVE WaitsForEvent'
  BY <1>0, <1>5 DEF DeleteDevice, callbackVars, requestVars, endVars, clientVars
<1>6. ASSUME NEW d \in Devices, WriteReport(d) PROVE WaitsForEvent'
  BY <1>0, <1>6 DEF WriteReport, requestVars, endVars, clientVars
<1>7. ASSUME NEW d \in Devices, BufferEvent(d) PROVE WaitsForEvent'
  <2>1. vhf[d] # "idle" /\ Buffer(holds[d]) /\ Owner[d] \notin pending
        /\ pending' = pending
    BY <1>7 DEF BufferEvent, requestVars
  <2>2. \A c \in Clients : c # Owner[d] => buffered'[c] = buffered[c]
    BY <2>1, BufferGrows
  <2>3. QED
    BY <2>1, <2>2
<1>8. ASSUME NEW d \in Devices, TakeRead(d) PROVE WaitsForEvent'
  BY <1>8 DEF TakeRead, deviceVars, endVars, clientVars
<1>9. ASSUME NEW d \in Devices, CompleteRead(d) PROVE WaitsForEvent'
  BY <1>0, <1>9 DEF CompleteRead, deviceVars, endVars, clientVars
<1>10. ASSUME NEW d \in Devices, UnmarkFails(d) PROVE WaitsForEvent'
  BY <1>0, <1>10 DEF UnmarkFails, deviceVars, requestVars, endVars, clientVars
<1>11. ASSUME NEW d \in Devices, RebufferEvent(d) PROVE WaitsForEvent'
  <2>1. vhf[d] # "idle" /\ Buffer(holds[d]) /\ Owner[d] \notin pending
        /\ pending' = pending
    BY <1>11 DEF RebufferEvent, requestVars
  <2>2. \A c \in Clients : c # Owner[d] => buffered'[c] = buffered[c]
    BY <2>1, BufferGrows
  <2>3. QED
    BY <2>1, <2>2
<1>12. ASSUME NEW c \in Clients, AnswerRead(c) PROVE WaitsForEvent'
  BY <1>12 DEF AnswerRead, Complete, deviceVars, callbackVars, endVars, clientVars
<1>13. ASSUME NEW c \in Clients, KeepRead(c) PROVE WaitsForEvent'
  BY <1>13 DEF KeepRead, deviceVars, callbackVars, endVars, clientVars
<1>14. ASSUME NEW c \in Clients, MarkFails(c) PROVE WaitsForEvent'
  BY <1>0, <1>14 DEF MarkFails, deviceVars, callbackVars, endVars, clientVars
<1>15. ASSUME NEW c \in Clients, QueueFails(c) PROVE WaitsForEvent'
  BY <1>0, <1>15 DEF QueueFails, deviceVars, callbackVars, endVars, clientVars
<1>16. ASSUME NEW c \in Clients, CancelRoutine(c) PROVE WaitsForEvent'
  BY <1>16 DEF CancelRoutine, Complete, deviceVars, callbackVars, endVars, clientVars
<1>17. ASSUME NEW c \in Clients, CleanupDevices(c) PROVE WaitsForEvent'
  BY <1>0, <1>17 DEF CleanupDevices, callbackVars, requestVars, clientVars
<1>18. ASSUME NEW c \in Clients, CleanupRequests(c) PROVE WaitsForEvent'
  BY <1>18 DEF CleanupRequests, deviceVars, callbackVars, clientVars
<1>19. ASSUME NEW c \in Clients, CleanupCompletes(c) PROVE WaitsForEvent'
  BY <1>0, <1>19 DEF CleanupCompletes, deviceVars, callbackVars, clientVars
<1>20. ASSUME ReleaseHardware PROVE WaitsForEvent'
  BY <1>20 DEF ReleaseHardware, deviceVars, callbackVars, clientVars
<1>21. ASSUME NEW c \in Clients, ReleaseCompletes(c) PROVE WaitsForEvent'
  BY <1>0, <1>21 DEF ReleaseCompletes, deviceVars, callbackVars, clientVars
<1>22. ASSUME ReleaseDevices PROVE WaitsForEvent'
  BY <1>0, <1>22 DEF ReleaseDevices, callbackVars, requestVars, clientVars
<1>23. ASSUME Released PROVE WaitsForEvent'
  BY <1>0, <1>23 DEF Released, deviceVars, callbackVars, requestVars, clientVars
<1>24. ASSUME NEW c \in Clients, StartRead(c) PROVE WaitsForEvent'
  BY <1>0, <1>24 DEF StartRead, deviceVars, callbackVars, endVars
<1>25. ASSUME NEW c \in Clients, ReadDone(c) PROVE WaitsForEvent'
  BY <1>0, <1>25 DEF ReadDone, deviceVars, callbackVars, endVars
<1>26. ASSUME NEW c \in Clients, CancelRead(c) PROVE WaitsForEvent'
  BY <1>0, <1>26 DEF CancelRead, deviceVars, callbackVars, endVars
<1>27. ASSUME NEW c \in Clients, LoopEnds(c) PROVE WaitsForEvent'
  BY <1>0, <1>27 DEF LoopEnds, deviceVars, callbackVars, requestVars, endVars
<1>28. ASSUME NEW c \in Clients, SetStopEvent(c) PROVE WaitsForEvent'
  BY <1>0, <1>28 DEF SetStopEvent, deviceVars, callbackVars, requestVars, endVars
<1>29. ASSUME NEW c \in Clients, RequestStop(c) PROVE WaitsForEvent'
  BY <1>0, <1>29 DEF RequestStop, deviceVars, callbackVars, requestVars, endVars
<1>30. ASSUME NEW c \in Clients, ClientDies(c) PROVE WaitsForEvent'
  BY <1>0, <1>30 DEF ClientDies, deviceVars, callbackVars, endVars
<1>31. CASE UNCHANGED vars
  BY <1>0, <1>31 DEF vars, deviceVars, callbackVars, requestVars, endVars, clientVars
<1> HIDE DEF Forsaken, TypeInv, TypeOK, Owns, Parties, WaitsForEvent
<1>32. QED
  BY <1>1, <1>2, <1>3, <1>4, <1>5, <1>6, <1>7, <1>8, <1>9, <1>10, <1>11, <1>12, <1>13,
    <1>14, <1>15, <1>16, <1>17, <1>18, <1>19, <1>20, <1>21, <1>22, <1>23, <1>24, <1>25,
    <1>26, <1>27, <1>28, <1>29, <1>30, <1>31 DEF
    Next, VhfStep, ReadStep, CleanupStep, ReaderStep

\* What a client has, and what it is about to get, is of its devices.
OwnEvents ==
  \A c \in Clients :
    /\ result[c] # NoEvent => Owner[result[c].device] = c
    /\ \A i \in DOMAIN received[c] : Owner[received[c][i].device] = c

\* A callback that has a read has found nothing of its device in the buffer.
NothingBefore ==
  \A d \in Devices : vhf[d] = "complete" => Numbers(buffered[Owner[d]], d) = {}

\* A step after which no client is undisturbed that was not.
NoneResumes == \A e \in Clients : Undisturbed(e)' => Undisturbed(e)

\* A client that is stopping, and hardware that goes, do not come back.
LEMMA UndisturbedBefore ==
  ASSUME TypeInv, ReadInv, [Next]_vars
  PROVE  NoneResumes
<1> USE OutputAssumption DEF TypeInv, TypeOK, ReadInv, Undisturbed, NoneResumes
<1>0. ASSUME UNCHANGED <<reader, stop, hardware>> PROVE NoneResumes
  BY <1>0
<1>1. ASSUME NEW d \in Devices, CreateDevice(d) PROVE NoneResumes
  BY <1>0, <1>1 DEF CreateDevice, callbackVars, requestVars, endVars, clientVars
<1>2. ASSUME NEW d \in Devices, RegisterDevice(d) PROVE NoneResumes
  BY <1>0, <1>2 DEF RegisterDevice, callbackVars, requestVars, endVars, clientVars
<1>3. ASSUME NEW d \in Devices, DestroyDevice(d) PROVE NoneResumes
  BY <1>0, <1>3 DEF DestroyDevice, callbackVars, requestVars, endVars, clientVars
<1>4. ASSUME ResetDevices PROVE NoneResumes
  BY <1>0, <1>4 DEF ResetDevices, callbackVars, requestVars, endVars, clientVars
<1>5. ASSUME NEW d \in Devices, DeleteDevice(d) PROVE NoneResumes
  BY <1>0, <1>5 DEF DeleteDevice, callbackVars, requestVars, endVars, clientVars
<1>6. ASSUME NEW d \in Devices, WriteReport(d) PROVE NoneResumes
  BY <1>0, <1>6 DEF WriteReport, requestVars, endVars, clientVars
<1>7. ASSUME NEW d \in Devices, BufferEvent(d) PROVE NoneResumes
  BY <1>0, <1>7 DEF BufferEvent, deviceVars, requestVars, endVars, clientVars
<1>8. ASSUME NEW d \in Devices, TakeRead(d) PROVE NoneResumes
  BY <1>0, <1>8 DEF TakeRead, deviceVars, endVars, clientVars
<1>9. ASSUME NEW d \in Devices, CompleteRead(d) PROVE NoneResumes
  BY <1>0, <1>9 DEF CompleteRead, deviceVars, endVars, clientVars
<1>10. ASSUME NEW d \in Devices, UnmarkFails(d) PROVE NoneResumes
  BY <1>0, <1>10 DEF UnmarkFails, deviceVars, requestVars, endVars, clientVars
<1>11. ASSUME NEW d \in Devices, RebufferEvent(d) PROVE NoneResumes
  BY <1>0, <1>11 DEF RebufferEvent, deviceVars, requestVars, endVars, clientVars
<1>12. ASSUME NEW c \in Clients, AnswerRead(c) PROVE NoneResumes
  BY <1>0, <1>12 DEF AnswerRead, deviceVars, callbackVars, endVars, clientVars
<1>13. ASSUME NEW c \in Clients, KeepRead(c) PROVE NoneResumes
  BY <1>0, <1>13 DEF KeepRead, deviceVars, callbackVars, endVars, clientVars
<1>14. ASSUME NEW c \in Clients, MarkFails(c) PROVE NoneResumes
  BY <1>0, <1>14 DEF MarkFails, deviceVars, callbackVars, endVars, clientVars
<1>15. ASSUME NEW c \in Clients, QueueFails(c) PROVE NoneResumes
  BY <1>0, <1>15 DEF QueueFails, deviceVars, callbackVars, endVars, clientVars
<1>16. ASSUME NEW c \in Clients, CancelRoutine(c) PROVE NoneResumes
  BY <1>0, <1>16 DEF CancelRoutine, deviceVars, callbackVars, endVars, clientVars
<1>17. ASSUME NEW c \in Clients, CleanupDevices(c) PROVE NoneResumes
  BY <1>0, <1>17 DEF CleanupDevices, callbackVars, requestVars, clientVars
<1>18. ASSUME NEW c \in Clients, CleanupRequests(c) PROVE NoneResumes
  BY <1>0, <1>18 DEF CleanupRequests, deviceVars, callbackVars, clientVars
<1>19. ASSUME NEW c \in Clients, CleanupCompletes(c) PROVE NoneResumes
  BY <1>0, <1>19 DEF CleanupCompletes, deviceVars, callbackVars, clientVars
<1>20. ASSUME ReleaseHardware PROVE NoneResumes
  BY <1>20 DEF ReleaseHardware, deviceVars, callbackVars, clientVars
<1>21. ASSUME NEW c \in Clients, ReleaseCompletes(c) PROVE NoneResumes
  BY <1>0, <1>21 DEF ReleaseCompletes, deviceVars, callbackVars, clientVars
<1>22. ASSUME ReleaseDevices PROVE NoneResumes
  BY <1>22 DEF ReleaseDevices, Closing, callbackVars, requestVars, clientVars
<1>23. ASSUME Released PROVE NoneResumes
  BY <1>23 DEF Released, deviceVars, callbackVars, requestVars, clientVars
<1>24. ASSUME NEW c \in Clients, StartRead(c) PROVE NoneResumes
  BY <1>24 DEF StartRead, deviceVars, callbackVars, endVars
<1>25. ASSUME NEW c \in Clients, ReadDone(c) PROVE NoneResumes
  BY <1>25 DEF ReadDone, deviceVars, callbackVars, endVars
<1>26. ASSUME NEW c \in Clients, CancelRead(c) PROVE NoneResumes
  BY <1>26 DEF CancelRead, Cancelled, deviceVars, callbackVars, endVars
<1>27. ASSUME NEW c \in Clients, LoopEnds(c) PROVE NoneResumes
  BY <1>27 DEF LoopEnds, deviceVars, callbackVars, requestVars, endVars
<1>28. ASSUME NEW c \in Clients, SetStopEvent(c) PROVE NoneResumes
  BY <1>28 DEF SetStopEvent, HandleOpen, deviceVars, callbackVars, requestVars, endVars
<1>29. ASSUME NEW c \in Clients, RequestStop(c) PROVE NoneResumes
  BY <1>29 DEF RequestStop, HandleOpen, deviceVars, callbackVars, requestVars, endVars
<1>30. ASSUME NEW c \in Clients, ClientDies(c) PROVE NoneResumes
  BY <1>30 DEF ClientDies, Cancelled, HandleOpen, deviceVars, callbackVars, endVars
<1>31. CASE UNCHANGED vars
  BY <1>0, <1>31 DEF vars, deviceVars, callbackVars, requestVars, endVars, clientVars
<1> HIDE DEF TypeInv, TypeOK, ReadInv, Undisturbed, NoneResumes
<1>32. QED
  BY <1>1, <1>2, <1>3, <1>4, <1>5, <1>6, <1>7, <1>8, <1>9, <1>10, <1>11, <1>12, <1>13,
    <1>14, <1>15, <1>16, <1>17, <1>18, <1>19, <1>20, <1>21, <1>22, <1>23, <1>24, <1>25,
    <1>26, <1>27, <1>28, <1>29, <1>30, <1>31 DEF
    Next, VhfStep, ReadStep, CleanupStep, ReaderStep

\* A read is completed with an event of its client only.
LEMMA OwnEventsNext ==
  ASSUME TypeInv, BufferInv, OwnEvents, [Next]_vars PROVE OwnEvents'
<1> USE OutputAssumption DEF OwnEvents, TypeInv, TypeOK, Carried
<1>0. ASSUME UNCHANGED <<received, result>> PROVE OwnEvents'
  BY <1>0
<1>1. ASSUME NEW d \in Devices, CreateDevice(d) PROVE OwnEvents'
  BY <1>0, <1>1 DEF CreateDevice, callbackVars, requestVars, endVars, clientVars
<1>2. ASSUME NEW d \in Devices, RegisterDevice(d) PROVE OwnEvents'
  BY <1>0, <1>2 DEF RegisterDevice, callbackVars, requestVars, endVars, clientVars
<1>3. ASSUME NEW d \in Devices, DestroyDevice(d) PROVE OwnEvents'
  BY <1>0, <1>3 DEF DestroyDevice, callbackVars, requestVars, endVars, clientVars
<1>4. ASSUME ResetDevices PROVE OwnEvents'
  BY <1>0, <1>4 DEF ResetDevices, callbackVars, requestVars, endVars, clientVars
<1>5. ASSUME NEW d \in Devices, DeleteDevice(d) PROVE OwnEvents'
  BY <1>0, <1>5 DEF DeleteDevice, callbackVars, requestVars, endVars, clientVars
<1>6. ASSUME NEW d \in Devices, WriteReport(d) PROVE OwnEvents'
  BY <1>0, <1>6 DEF WriteReport, requestVars, endVars, clientVars
<1>7. ASSUME NEW d \in Devices, BufferEvent(d) PROVE OwnEvents'
  BY <1>0, <1>7 DEF BufferEvent, deviceVars, requestVars, endVars, clientVars
<1>8. ASSUME NEW d \in Devices, TakeRead(d) PROVE OwnEvents'
  BY <1>0, <1>8 DEF TakeRead, deviceVars, endVars, clientVars
<1>9. ASSUME NEW d \in Devices, CompleteRead(d) PROVE OwnEvents'
  <2>1. /\ result' = [result EXCEPT ![Owner[d]] = holds[d]] /\ received' = received
        /\ holds[d].device = d
    BY <1>9 DEF CompleteRead, Complete, clientVars
  <2>2. \A e \in Clients : result'[e] = result[e] \/ (e = Owner[d] /\ result'[e] = holds[d])
    BY <2>1
  <2>3. QED
    BY <2>1, <2>2
<1>10. ASSUME NEW d \in Devices, UnmarkFails(d) PROVE OwnEvents'
  BY <1>0, <1>10 DEF UnmarkFails, deviceVars, requestVars, endVars, clientVars
<1>11. ASSUME NEW d \in Devices, RebufferEvent(d) PROVE OwnEvents'
  BY <1>0, <1>11 DEF RebufferEvent, deviceVars, requestVars, endVars, clientVars
<1>12. ASSUME NEW c \in Clients, AnswerRead(c) PROVE OwnEvents'
  <2>1. /\ buffered[c] # <<>> /\ result' = [result EXCEPT ![c] = Head(buffered[c])]
        /\ received' = received
    BY <1>12 DEF AnswerRead, Complete, clientVars
  <2>2. Owner[Head(buffered[c]).device] = c
    <3>1. buffered[c] \in Seq(Events) /\ 1 \in DOMAIN buffered[c]
      BY <2>1
    <3>2. QED
      BY <2>1, <3>1 DEF BufferInv, Home
  <2>3. QED
    BY <2>1, <2>2
<1>13. ASSUME NEW c \in Clients, KeepRead(c) PROVE OwnEvents'
  BY <1>0, <1>13 DEF KeepRead, deviceVars, callbackVars, endVars, clientVars
<1>14. ASSUME NEW c \in Clients, MarkFails(c) PROVE OwnEvents'
  BY <1>14 DEF MarkFails, Complete, deviceVars, callbackVars, endVars, clientVars
<1>15. ASSUME NEW c \in Clients, QueueFails(c) PROVE OwnEvents'
  BY <1>15 DEF QueueFails, Complete, deviceVars, callbackVars, endVars, clientVars
<1>16. ASSUME NEW c \in Clients, CancelRoutine(c) PROVE OwnEvents'
  <2>1. received' = received
    BY <1>16 DEF CancelRoutine, clientVars
  <2>2. result' = result \/ result' = [result EXCEPT ![c] = NoEvent]
    BY <1>16 DEF CancelRoutine, Complete
  <2>3. \A e \in Clients : result'[e] \in {result[e], NoEvent}
    BY <2>2
  <2>4. QED
    BY <2>1, <2>3
<1>17. ASSUME NEW c \in Clients, CleanupDevices(c) PROVE OwnEvents'
  BY <1>0, <1>17 DEF CleanupDevices, callbackVars, requestVars, clientVars
<1>18. ASSUME NEW c \in Clients, CleanupRequests(c) PROVE OwnEvents'
  BY <1>0, <1>18 DEF CleanupRequests, deviceVars, callbackVars, clientVars
<1>19. ASSUME NEW c \in Clients, CleanupCompletes(c) PROVE OwnEvents'
  <2>1. received' = received
    BY <1>19 DEF CleanupCompletes, clientVars
  <2>2. result' = result \/ result' = [result EXCEPT ![c] = NoEvent]
    BY <1>19 DEF CleanupCompletes, CompleteIfUnmarked, Complete
  <2>3. \A e \in Clients : result'[e] \in {result[e], NoEvent}
    BY <2>2
  <2>4. QED
    BY <2>1, <2>3
<1>20. ASSUME ReleaseHardware PROVE OwnEvents'
  BY <1>0, <1>20 DEF ReleaseHardware, deviceVars, callbackVars, clientVars
<1>21. ASSUME NEW c \in Clients, ReleaseCompletes(c) PROVE OwnEvents'
  <2>1. received' = received
    BY <1>21 DEF ReleaseCompletes, clientVars
  <2>2. result' = result \/ result' = [result EXCEPT ![c] = NoEvent]
    BY <1>21 DEF ReleaseCompletes, CompleteIfUnmarked, Complete
  <2>3. \A e \in Clients : result'[e] \in {result[e], NoEvent}
    BY <2>2
  <2>4. QED
    BY <2>1, <2>3
<1>22. ASSUME ReleaseDevices PROVE OwnEvents'
  BY <1>0, <1>22 DEF ReleaseDevices, callbackVars, requestVars, clientVars
<1>23. ASSUME Released PROVE OwnEvents'
  BY <1>0, <1>23 DEF Released, deviceVars, callbackVars, requestVars, clientVars
<1>24. ASSUME NEW c \in Clients, StartRead(c) PROVE OwnEvents'
  BY <1>0, <1>24 DEF StartRead, deviceVars, callbackVars, endVars
<1>25. ASSUME NEW c \in Clients, ReadDone(c) PROVE OwnEvents'
  <2>1. result' = [result EXCEPT ![c] = NoEvent]
    BY <1>25 DEF ReadDone
  <2>2. CASE received' = received
    BY <2>1, <2>2
  <2>3. CASE received' = [received EXCEPT ![c] = Append(@, result[c])] /\ result[c] # NoEvent
    <3>1. received[c] \in Seq(Events) /\ result[c] \in Events
      BY <2>3
    <3>2. received'[c] = Append(received[c], result[c])
      BY <2>3
    <3>3. \A i \in DOMAIN received'[c] :
            \/ i \in DOMAIN received[c] /\ received'[c][i] = received[c][i]
            \/ received'[c][i] = result[c]
      BY <3>1, <3>2
    <3>4. \A i \in DOMAIN received'[c] : Owner[received'[c][i].device] = c
      BY <2>3, <3>3
    <3>5. \A e \in Clients : e # c => received'[e] = received[e] /\ result'[e] = result[e]
      BY <2>1, <2>3
    <3>6. result'[c] = NoEvent
      BY <2>1
    <3>7. \A e \in Clients : result'[e] # NoEvent => Owner[result'[e].device] = e
      BY <3>5, <3>6
    <3>8. ASSUME NEW e \in Clients
          PROVE  \A i \in DOMAIN received'[e] : Owner[received'[e][i].device] = e
      <4>1. CASE e = c
        BY <3>4, <4>1
      <4>2. CASE e # c
        <5>1. received'[e] = received[e]
          BY <3>5, <4>2
        <5>2. QED
          BY <5>1
      <4>3. QED
        BY <4>1, <4>2
    <3>9. QED
      BY <3>7, <3>8
  <2>4. QED
    BY <1>25, <2>2, <2>3 DEF ReadDone
<1>26. ASSUME NEW c \in Clients, CancelRead(c) PROVE OwnEvents'
  BY <1>0, <1>26 DEF CancelRead, deviceVars, callbackVars, endVars
<1>27. ASSUME NEW c \in Clients, LoopEnds(c) PROVE OwnEvents'
  BY <1>0, <1>27 DEF LoopEnds, deviceVars, callbackVars, requestVars, endVars
<1>28. ASSUME NEW c \in Clients, SetStopEvent(c) PROVE OwnEvents'
  BY <1>0, <1>28 DEF SetStopEvent, deviceVars, callbackVars, requestVars, endVars
<1>29. ASSUME NEW c \in Clients, RequestStop(c) PROVE OwnEvents'
  BY <1>0, <1>29 DEF RequestStop, deviceVars, callbackVars, requestVars, endVars
<1>30. ASSUME NEW c \in Clients, ClientDies(c) PROVE OwnEvents'
  BY <1>0, <1>30 DEF ClientDies, deviceVars, callbackVars, endVars
<1>31. CASE UNCHANGED vars
  BY <1>0, <1>31 DEF vars, deviceVars, callbackVars, requestVars, endVars, clientVars
<1> HIDE DEF OwnEvents, TypeInv, TypeOK, Carried
<1>32. QED
  BY <1>1, <1>2, <1>3, <1>4, <1>5, <1>6, <1>7, <1>8, <1>9, <1>10, <1>11, <1>12, <1>13,
    <1>14, <1>15, <1>16, <1>17, <1>18, <1>19, <1>20, <1>21, <1>22, <1>23, <1>24, <1>25,
    <1>26, <1>27, <1>28, <1>29, <1>30, <1>31 DEF
    Next, VhfStep, ReadStep, CleanupStep, ReaderStep

\* Only the device whose callback has the read could add its events to the buffer.
LEMMA NothingBeforeNext ==
  ASSUME TypeInv, OwnerInv, WaitsForEvent, NothingBefore, [Next]_vars PROVE NothingBefore'
<1>0. ASSUME UNCHANGED <<buffered, vhf>> PROVE NothingBefore'
  BY <1>0 DEF NothingBefore
<1>1. ASSUME NEW d \in Devices, CreateDevice(d) PROVE NothingBefore'
  BY <1>0, <1>1 DEF CreateDevice, callbackVars, requestVars, endVars, clientVars
<1>2. ASSUME NEW d \in Devices, RegisterDevice(d) PROVE NothingBefore'
  BY <1>0, <1>2 DEF RegisterDevice, callbackVars, requestVars, endVars, clientVars
<1>3. ASSUME NEW d \in Devices, DestroyDevice(d) PROVE NothingBefore'
  BY <1>0, <1>3 DEF DestroyDevice, callbackVars, requestVars, endVars, clientVars
<1>4. ASSUME ResetDevices PROVE NothingBefore'
  BY <1>0, <1>4 DEF ResetDevices, callbackVars, requestVars, endVars, clientVars
<1>5. ASSUME NEW d \in Devices, DeleteDevice(d) PROVE NothingBefore'
  BY <1>0, <1>5 DEF DeleteDevice, callbackVars, requestVars, endVars, clientVars
<1>6. ASSUME NEW d \in Devices, WriteReport(d) PROVE NothingBefore'
  BY <1>6, OutputAssumption DEF NothingBefore, TypeInv, TypeOK, WriteReport, Event,
    requestVars, endVars, clientVars
<1>7. ASSUME NEW d \in Devices, BufferEvent(d) PROVE NothingBefore'
  <2>1. /\ vhf[d] # "idle" /\ vhf[d] # "complete" /\ Buffer(holds[d])
        /\ vhf' = [vhf EXCEPT ![d] = "idle"]
    BY <1>7 DEF BufferEvent, CallbackReturns
  <2>2. SUFFICES ASSUME NEW e \in Devices, vhf'[e] = "complete"
                 PROVE  Numbers(buffered'[Owner[e]], e) = {}
    BY DEF NothingBefore
  <2>3. vhf[e] = "complete" /\ e # d /\ Owner[e] \in Clients
    BY <2>1, <2>2, OutputAssumption DEF TypeInv, TypeOK
  <2>4. Numbers(buffered[Owner[e]], e) = {}
    BY <2>3 DEF NothingBefore
  <2>5. CASE Owner[e] # Owner[d]
    BY <2>1, <2>3, <2>4, <2>5, BufferGrows
  <2>6. CASE Owner[e] = Owner[d]
    <3>1. /\ buffered'[Owner[e]] = Append(buffered[Owner[e]], holds[d])
          /\ holds[d] \in Events /\ holds[d].device = d
          /\ buffered[Owner[e]] \in Seq(Events)
      BY <2>1, <2>6, BufferGrows
    <3>2. Number(holds[d], e) = {}
      BY <2>3, <3>1 DEF Number
    <3>3. QED
      BY <2>4, <3>1, <3>2, Appended
  <2>7. QED
    BY <2>5, <2>6
<1>8. ASSUME NEW d \in Devices, TakeRead(d) PROVE NothingBefore'
  <2>1. /\ Owner[d] \in pending /\ vhf' = [vhf EXCEPT ![d] = "complete"]
        /\ buffered' = buffered
    BY <1>8 DEF TakeRead
  <2>2. Numbers(buffered[Owner[d]], d) = {}
    BY <2>1, Nothing DEF WaitsForEvent
  <2>3. \A e \in Devices : e # d => vhf'[e] = vhf[e]
    BY <2>1 DEF TypeInv, TypeOK
  <2>4. QED
    BY <2>1, <2>2, <2>3 DEF NothingBefore
<1>9. ASSUME NEW d \in Devices, CompleteRead(d) PROVE NothingBefore'
  BY <1>9, OutputAssumption DEF NothingBefore, TypeInv, TypeOK, CompleteRead, Complete,
    CallbackReturns, deviceVars, endVars, clientVars
<1>10. ASSUME NEW d \in Devices, UnmarkFails(d) PROVE NothingBefore'
  BY <1>10, OutputAssumption DEF NothingBefore, TypeInv, TypeOK, UnmarkFails, deviceVars,
    requestVars, endVars, clientVars
<1>11. ASSUME NEW d \in Devices, RebufferEvent(d) PROVE NothingBefore'
  <2>1. /\ vhf[d] # "idle" /\ vhf[d] # "complete" /\ Buffer(holds[d])
        /\ vhf' = [vhf EXCEPT ![d] = "idle"]
    BY <1>11 DEF RebufferEvent, CallbackReturns
  <2>2. SUFFICES ASSUME NEW e \in Devices, vhf'[e] = "complete"
                 PROVE  Numbers(buffered'[Owner[e]], e) = {}
    BY DEF NothingBefore
  <2>3. vhf[e] = "complete" /\ e # d /\ Owner[e] \in Clients
    BY <2>1, <2>2, OutputAssumption DEF TypeInv, TypeOK
  <2>4. Numbers(buffered[Owner[e]], e) = {}
    BY <2>3 DEF NothingBefore
  <2>5. CASE Owner[e] # Owner[d]
    BY <2>1, <2>3, <2>4, <2>5, BufferGrows
  <2>6. CASE Owner[e] = Owner[d]
    <3>1. /\ buffered'[Owner[e]] = Append(buffered[Owner[e]], holds[d])
          /\ holds[d] \in Events /\ holds[d].device = d
          /\ buffered[Owner[e]] \in Seq(Events)
      BY <2>1, <2>6, BufferGrows
    <3>2. Number(holds[d], e) = {}
      BY <2>3, <3>1 DEF Number
    <3>3. QED
      BY <2>4, <3>1, <3>2, Appended
  <2>7. QED
    BY <2>5, <2>6
<1>12. ASSUME NEW c \in Clients, AnswerRead(c) PROVE NothingBefore'
  <2>1. /\ read[c] \in {"sent", "sent_canceled"} /\ vhf' = vhf
        /\ buffered' = [buffered EXCEPT ![c] = Tail(@)]
    BY <1>12 DEF AnswerRead, callbackVars
  <2>2. SUFFICES ASSUME NEW d \in Devices, vhf[d] = "complete"
                 PROVE  Numbers(buffered'[Owner[d]], d) = {}
    BY <2>1 DEF NothingBefore
  <2>3. Owner[d] # c
    BY <2>1, <2>2 DEF OwnerInv, OneOwner, Owns, Parties, Callbacks, DevicesOf, Marked
  <2>4. buffered'[Owner[d]] = buffered[Owner[d]]
    BY <2>1, <2>3, OutputAssumption DEF TypeInv, TypeOK
  <2>5. QED
    BY <2>2, <2>4 DEF NothingBefore
<1>13. ASSUME NEW c \in Clients, KeepRead(c) PROVE NothingBefore'
  BY <1>0, <1>13 DEF KeepRead, deviceVars, callbackVars, endVars, clientVars
<1>14. ASSUME NEW c \in Clients, MarkFails(c) PROVE NothingBefore'
  BY <1>0, <1>14 DEF MarkFails, deviceVars, callbackVars, endVars, clientVars
<1>15. ASSUME NEW c \in Clients, QueueFails(c) PROVE NothingBefore'
  BY <1>0, <1>15 DEF QueueFails, deviceVars, callbackVars, endVars, clientVars
<1>16. ASSUME NEW c \in Clients, CancelRoutine(c) PROVE NothingBefore'
  BY <1>0, <1>16 DEF CancelRoutine, deviceVars, callbackVars, endVars, clientVars
<1>17. ASSUME NEW c \in Clients, CleanupDevices(c) PROVE NothingBefore'
  BY <1>0, <1>17 DEF CleanupDevices, callbackVars, requestVars, clientVars
<1>18. ASSUME NEW c \in Clients, CleanupRequests(c) PROVE NothingBefore'
  <2>1. vhf' = vhf /\ buffered' = [buffered EXCEPT ![c] = <<>>]
    BY <1>18 DEF CleanupRequests, callbackVars
  <2>2. \A e \in Clients : buffered'[e] \in {buffered[e], <<>>}
    BY <2>1 DEF TypeInv, TypeOK
  <2>3. QED
    BY <2>1, <2>2, Nothing, OutputAssumption DEF NothingBefore
<1>19. ASSUME NEW c \in Clients, CleanupCompletes(c) PROVE NothingBefore'
  BY <1>0, <1>19 DEF CleanupCompletes, deviceVars, callbackVars, clientVars
<1>20. ASSUME ReleaseHardware PROVE NothingBefore'
  <2>1. vhf' = vhf /\ \A e \in Clients : buffered'[e] = <<>>
    BY <1>20 DEF ReleaseHardware, callbackVars
  <2>2. QED
    BY <2>1, Nothing, OutputAssumption DEF NothingBefore
<1>21. ASSUME NEW c \in Clients, ReleaseCompletes(c) PROVE NothingBefore'
  BY <1>0, <1>21 DEF ReleaseCompletes, deviceVars, callbackVars, clientVars
<1>22. ASSUME ReleaseDevices PROVE NothingBefore'
  BY <1>0, <1>22 DEF ReleaseDevices, callbackVars, requestVars, clientVars
<1>23. ASSUME Released PROVE NothingBefore'
  BY <1>0, <1>23 DEF Released, deviceVars, callbackVars, requestVars, clientVars
<1>24. ASSUME NEW c \in Clients, StartRead(c) PROVE NothingBefore'
  BY <1>0, <1>24 DEF StartRead, deviceVars, callbackVars, endVars
<1>25. ASSUME NEW c \in Clients, ReadDone(c) PROVE NothingBefore'
  BY <1>0, <1>25 DEF ReadDone, deviceVars, callbackVars, endVars
<1>26. ASSUME NEW c \in Clients, CancelRead(c) PROVE NothingBefore'
  BY <1>0, <1>26 DEF CancelRead, deviceVars, callbackVars, endVars
<1>27. ASSUME NEW c \in Clients, LoopEnds(c) PROVE NothingBefore'
  BY <1>0, <1>27 DEF LoopEnds, deviceVars, callbackVars, requestVars, endVars
<1>28. ASSUME NEW c \in Clients, SetStopEvent(c) PROVE NothingBefore'
  BY <1>0, <1>28 DEF SetStopEvent, deviceVars, callbackVars, requestVars, endVars
<1>29. ASSUME NEW c \in Clients, RequestStop(c) PROVE NothingBefore'
  BY <1>0, <1>29 DEF RequestStop, deviceVars, callbackVars, requestVars, endVars
<1>30. ASSUME NEW c \in Clients, ClientDies(c) PROVE NothingBefore'
  BY <1>0, <1>30 DEF ClientDies, deviceVars, callbackVars, endVars
<1>31. CASE UNCHANGED vars
  BY <1>0, <1>31 DEF vars, deviceVars, callbackVars, requestVars, endVars, clientVars
<1>32. QED
  BY <1>1, <1>2, <1>3, <1>4, <1>5, <1>6, <1>7, <1>8, <1>9, <1>10, <1>11, <1>12, <1>13,
    <1>14, <1>15, <1>16, <1>17, <1>18, <1>19, <1>20, <1>21, <1>22, <1>23, <1>24, <1>25,
    <1>26, <1>27, <1>28, <1>29, <1>30, <1>31 DEF
    Next, VhfStep, ReadStep, CleanupStep, ReaderStep

\* The output reports of d that its client has dispatched, that its read was completed
\* with, that are buffered, and that its callback carries.
Got(d) == Numbers(received[Owner[d]], d)
InRead(d) == Number(result[Owner[d]], d)
Waiting(d) == Numbers(buffered[Owner[d]], d)
Carries(d) == Number(holds[d], d)

\* Each of them is later than those before it, none is missing for a client that goes on
\* reading.
InOrder(d) ==
  /\ Growing(received[Owner[d]], d) /\ Growing(buffered[Owner[d]], d)
  /\ Before(Got(d), InRead(d) \cup Waiting(d) \cup Carries(d))
  /\ Before(InRead(d), Waiting(d) \cup Carries(d))
  /\ Before(Waiting(d), Carries(d))
  /\ Got(d) \cup InRead(d) \cup Waiting(d) \cup Carries(d) \subseteq 1..sent[d]
  /\ Undisturbed(Owner[d]) =>
       1..sent[d] \subseteq Got(d) \cup InRead(d) \cup Waiting(d) \cup Carries(d)

OrderInv == \A d \in Devices : InOrder(d)

\* Reports move on towards the client, or back into the buffer behind all others there.
LEMMA ReportsMove ==
  ASSUME NEW d \in Devices, InOrder(d), sent'[d] = sent[d],
         Undisturbed(Owner[d])' => Undisturbed(Owner[d]),
         Growing(received[Owner[d]], d)', Growing(buffered[Owner[d]], d)',
         \/ /\ Got(d)' = Got(d) /\ InRead(d)' = InRead(d)
            /\ Waiting(d)' = Waiting(d) \cup Carries(d) /\ Carries(d)' = {}
         \/ /\ Got(d)' = Got(d) /\ InRead(d) = {} /\ Waiting(d) = {} /\ Waiting(d)' = {}
            /\ InRead(d)' = Carries(d) /\ Carries(d)' = {}
         \/ /\ Got(d)' = Got(d) /\ Carries(d)' = Carries(d) /\ InRead(d) = {}
            /\ InRead(d)' \cup Waiting(d)' = Waiting(d) /\ Before(InRead(d)', Waiting(d)')
         \/ /\ Got(d)' = Got(d) \cup InRead(d) /\ InRead(d)' = {}
            /\ Waiting(d)' = Waiting(d) /\ Carries(d)' = Carries(d)
         \/ /\ Got(d)' = Got(d) /\ InRead(d)' = InRead(d)
            /\ Waiting(d)' = Waiting(d) /\ Carries(d)' = Carries(d)
         \/ /\ ~Undisturbed(Owner[d])'
            /\ Got(d)' = Got(d) /\ InRead(d)' \subseteq InRead(d)
            /\ Waiting(d)' \subseteq Waiting(d) /\ Carries(d)' = Carries(d)
  PROVE  InOrder(d)'
<1> DEFINE n == sent[d]
<1> HIDE DEF n
<1>1. /\ Before(Got(d)', InRead(d)' \cup Waiting(d)' \cup Carries(d)')
      /\ Before(InRead(d)', Waiting(d)' \cup Carries(d)')
      /\ Before(Waiting(d)', Carries(d)')
  BY DEF InOrder, Before
<1>2. Got(d)' \cup InRead(d)' \cup Waiting(d)' \cup Carries(d)'
        \subseteq Got(d) \cup InRead(d) \cup Waiting(d) \cup Carries(d)
  OBVIOUS
<1>3. Undisturbed(Owner[d])' =>
        Got(d) \cup InRead(d) \cup Waiting(d) \cup Carries(d)
          \subseteq Got(d)' \cup InRead(d)' \cup Waiting(d)' \cup Carries(d)'
  OBVIOUS
<1>4. QED
  BY <1>1, <1>2, <1>3 DEF InOrder

\* Nothing that OrderInv speaks of moves.
LEMMA NothingMoves ==
  ASSUME OrderInv, TypeInv, UNCHANGED <<received, result, buffered, holds, sent>>,
         \A c \in Clients : Undisturbed(c)' => Undisturbed(c)
  PROVE  OrderInv'
<1>1. SUFFICES ASSUME NEW d \in Devices
               PROVE  InOrder(d)'
  BY DEF OrderInv
<1>2. InOrder(d) /\ Owner[d] \in Clients
  BY OutputAssumption DEF OrderInv
<1>3. /\ Got(d)' = Got(d) /\ InRead(d)' = InRead(d)
      /\ Waiting(d)' = Waiting(d) /\ Carries(d)' = Carries(d)
      /\ received'[Owner[d]] = received[Owner[d]] /\ buffered'[Owner[d]] = buffered[Owner[d]]
  BY DEF Got, InRead, Waiting, Carries
<1>4. Growing(received[Owner[d]], d)' /\ Growing(buffered[Owner[d]], d)'
  BY <1>2, <1>3 DEF InOrder
<1>5. QED
  BY <1>2, <1>3, <1>4, ReportsMove

\* The types of what a report passes through.
LEMMA FlowTypes ==
  ASSUME TypeInv, NEW d \in Devices
  PROVE  /\ Owner[d] \in Clients
         /\ received[Owner[d]] \in Seq(Events) /\ buffered[Owner[d]] \in Seq(Events)
         /\ result[Owner[d]] \in Outputs /\ holds[d] \in Outputs
         /\ vhf[d] # "idle" => holds[d] \in Events /\ holds[d].device = d
         /\ sent[d] \in Nat
BY OutputAssumption DEF TypeInv, TypeOK, Carried, Outputs

\* The host writes: the number is a new one.
LEMMA HostWrites ==
  ASSUME OrderInv, TypeInv, HoldsNewest, NEW d \in Devices, WriteReport(d),
         \A c \in Clients : Undisturbed(c)' => Undisturbed(c)
  PROVE  OrderInv'
<1>1. SUFFICES ASSUME NEW e \in Devices
               PROVE  InOrder(e)'
  BY DEF OrderInv
<1>2. /\ InOrder(e) /\ Owner[e] \in Clients
      /\ received' = received /\ result' = result /\ buffered' = buffered
      /\ sent[e] \in Nat
  BY FlowTypes DEF OrderInv, WriteReport, requestVars, clientVars
<1>3. /\ Got(e)' = Got(e) /\ InRead(e)' = InRead(e) /\ Waiting(e)' = Waiting(e)
      /\ Growing(received[Owner[e]], e)' /\ Growing(buffered[Owner[e]], e)'
  BY <1>2 DEF Got, InRead, Waiting, InOrder
<1>4. CASE e # d
  <2>1. sent'[e] = sent[e] /\ holds'[e] = holds[e]
    BY <1>4 DEF WriteReport, TypeInv, TypeOK
  <2>2. Carries(e)' = Carries(e)
    BY <2>1 DEF Carries
  <2>3. QED
    BY <1>2, <1>3, <2>1, <2>2, ReportsMove
<1>5. CASE e = d
  <2>1. holds[d] = NoEvent /\ sent'[d] = sent[d] + 1 /\ holds'[d] = Event(d, sent[d] + 1)
    BY DEF WriteReport, TypeInv, TypeOK, HoldsNewest
  <2>2. Event(d, sent[d] + 1) \in Events
    BY <1>2, <1>5 DEF Event, Events
  <2>3. Carries(d) = {} /\ Carries(d)' = {sent[d] + 1}
    BY <2>1, <2>2, EventIsSome DEF Carries, Number, Event
  <2>4. 1..sent'[d] = 1..sent[d] \cup {sent[d] + 1}
    BY <1>2, <1>5, <2>1
  <2>5. \A m \in 1..sent[d] : m < sent[d] + 1
    BY <1>2, <1>5
  <2>6. /\ Before(Got(d), InRead(d) \cup Waiting(d) \cup {sent[d] + 1})
        /\ Before(InRead(d), Waiting(d) \cup {sent[d] + 1})
        /\ Before(Waiting(d), {sent[d] + 1})
    BY <1>2, <1>5, <2>5 DEF InOrder, Before
  <2>7. /\ Got(d) \cup InRead(d) \cup Waiting(d) \cup {sent[d] + 1} \subseteq 1..sent'[d]
        /\ Undisturbed(Owner[d]) =>
             1..sent'[d] \subseteq Got(d) \cup InRead(d) \cup Waiting(d) \cup {sent[d] + 1}
    BY <1>2, <1>5, <2>3, <2>4 DEF InOrder
  <2>8. QED
    BY <1>2, <1>3, <1>5, <2>3, <2>6, <2>7 DEF InOrder
<1>6. QED
  BY <1>4, <1>5

\* A callback keeps its event for the next read.
LEMMA CallbackKeeps ==
  ASSUME OrderInv, TypeInv, NEW d \in Devices, vhf[d] # "idle", Buffer(holds[d]),
         CallbackReturns(d), UNCHANGED <<received, result, sent>>,
         \A c \in Clients : Undisturbed(c)' => Undisturbed(c)
  PROVE  OrderInv'
<1>1. SUFFICES ASSUME NEW e \in Devices
               PROVE  InOrder(e)'
  BY DEF OrderInv
<1>2. /\ InOrder(e) /\ Owner[e] \in Clients /\ InOrder(d)
      /\ holds[d] \in Events /\ holds[d].device = d
      /\ buffered[Owner[e]] \in Seq(Events)
  BY FlowTypes DEF OrderInv
<1>3. /\ Got(e)' = Got(e) /\ InRead(e)' = InRead(e)
      /\ Growing(received[Owner[e]], e)'
  BY <1>2 DEF Got, InRead, InOrder
<1>4. /\ holds'[d] = NoEvent
      /\ e # d => holds'[e] = holds[e]
  BY DEF CallbackReturns, TypeInv, TypeOK
<1>5. Number(holds[d], e) = IF e = d THEN Carries(d) ELSE {}
  BY <1>2 DEF Number, Carries
<1>6. Before(Waiting(e), Number(holds[d], e))
  BY <1>2, <1>5 DEF InOrder, Before
<1>7. /\ Waiting(e)' = Waiting(e) \cup Number(holds[d], e)
           \/ (Owner[e] # Owner[d] /\ Waiting(e)' = Waiting(e))
      /\ Growing(buffered[Owner[e]], e)'
  <2>1. CASE Owner[e] # Owner[d]
    <3>1. buffered'[Owner[e]] = buffered[Owner[e]]
      BY <1>2, <2>1, BufferGrows
    <3>2. QED
      BY <1>2, <2>1, <3>1 DEF Waiting, InOrder
  <2>2. CASE Owner[e] = Owner[d]
    <3>1. buffered'[Owner[e]] = Append(buffered[Owner[e]], holds[d])
      BY <2>2, BufferGrows
    <3>2. /\ Numbers(Append(buffered[Owner[e]], holds[d]), e)
               = Waiting(e) \cup Number(holds[d], e)
          /\ Growing(Append(buffered[Owner[e]], holds[d]), e)
      BY <1>2, <1>6, Appended DEF Waiting, InOrder
    <3>3. QED
      BY <3>1, <3>2 DEF Waiting
  <2>3. QED
    BY <2>1, <2>2
<1>8. CASE e = d
  <2>1. Waiting(d)' = Waiting(d) \cup Carries(d) /\ Carries(d)' = {}
    BY <1>4, <1>5, <1>7, <1>8 DEF Carries, Number
  <2>2. QED
    BY <1>2, <1>3, <1>7, <1>8, <2>1, ReportsMove
<1>9. CASE e # d
  <2>1. Waiting(e)' = Waiting(e) /\ Carries(e)' = Carries(e)
    BY <1>4, <1>5, <1>7, <1>9 DEF Carries
  <2>2. QED
    BY <1>2, <1>3, <1>7, <2>1, ReportsMove
<1>10. QED
  BY <1>8, <1>9

\* A read takes the event of the callback, which is the only one of its device there.
LEMMA CallbackAnswers ==
  ASSUME OrderInv, TypeInv, ReadInv, NothingBefore, NEW d \in Devices, CompleteRead(d),
         \A c \in Clients : Undisturbed(c)' => Undisturbed(c)
  PROVE  OrderInv'
<1>1. SUFFICES ASSUME NEW e \in Devices
               PROVE  InOrder(e)'
  BY DEF OrderInv
<1>2. /\ InOrder(e) /\ Owner[e] \in Clients /\ Owner[d] \in Clients
      /\ holds[d] \in Events /\ holds[d].device = d
  BY FlowTypes DEF OrderInv, CompleteRead
<1>3. received' = received /\ buffered' = buffered /\ sent' = sent
  BY DEF CompleteRead, deviceVars, clientVars
<1>4. /\ Got(e)' = Got(e) /\ Waiting(e)' = Waiting(e)
      /\ Growing(received[Owner[e]], e)' /\ Growing(buffered[Owner[e]], e)'
  BY <1>2, <1>3 DEF Got, Waiting, InOrder
<1>5. /\ holds'[d] = NoEvent /\ result'[Owner[d]] = holds[d] /\ result[Owner[d]] = NoEvent
      /\ e # d => holds'[e] = holds[e]
      /\ Owner[e] # Owner[d] => result'[Owner[e]] = result[Owner[e]]
  BY <1>2 DEF CompleteRead, CallbackReturns, Complete, TypeInv, TypeOK, ReadInv
<1>6. CASE e = d
  <2>1. InRead(d) = {} /\ Waiting(d) = {} /\ InRead(d)' = Carries(d) /\ Carries(d)' = {}
    BY <1>5 DEF InRead, Carries, Number, NothingBefore, Waiting, CompleteRead
  <2>2. QED
    BY <1>2, <1>3, <1>4, <1>6, <2>1, ReportsMove
<1>7. CASE e # d
  <2>1. InRead(e)' = InRead(e) /\ Carries(e)' = Carries(e)
    BY <1>2, <1>5, <1>7 DEF InRead, Carries, Number
  <2>2. QED
    BY <1>2, <1>3, <1>4, <2>1, ReportsMove
<1>8. QED
  BY <1>6, <1>7

\* A read takes the oldest event that is buffered.
LEMMA BufferAnswers ==
  ASSUME OrderInv, TypeInv, ReadInv, NEW c \in Clients, AnswerRead(c),
         \A e \in Clients : Undisturbed(e)' => Undisturbed(e)
  PROVE  OrderInv'
<1>1. SUFFICES ASSUME NEW e \in Devices
               PROVE  InOrder(e)'
  BY DEF OrderInv
<1>2. /\ InOrder(e) /\ Owner[e] \in Clients /\ buffered[Owner[e]] \in Seq(Events)
  BY FlowTypes DEF OrderInv
<1>3. received' = received /\ holds' = holds /\ sent' = sent
  BY DEF AnswerRead, deviceVars, callbackVars, clientVars
<1>4. /\ Got(e)' = Got(e) /\ Carries(e)' = Carries(e)
      /\ Growing(received[Owner[e]], e)'
  BY <1>2, <1>3 DEF Got, Carries, InOrder
<1>5. /\ result[c] = NoEvent /\ result'[c] = Head(buffered[c])
      /\ buffered'[c] = Tail(buffered[c]) /\ buffered[c] # <<>>
      /\ Owner[e] # c => /\ result'[Owner[e]] = result[Owner[e]]
                         /\ buffered'[Owner[e]] = buffered[Owner[e]]
  BY <1>2 DEF AnswerRead, Complete, TypeInv, TypeOK, ReadInv
<1>6. CASE Owner[e] = c
  <2>1. /\ Waiting(e) = InRead(e)' \cup Waiting(e)' /\ InRead(e) = {}
    <3>1. Waiting(e) = Number(Head(buffered[c]), e) \cup Numbers(Tail(buffered[c]), e)
      BY <1>2, <1>5, <1>6, Parted DEF Waiting
    <3>2. InRead(e)' = Number(Head(buffered[c]), e)
      BY <1>5, <1>6 DEF InRead
    <3>3. Waiting(e)' = Numbers(Tail(buffered[c]), e)
      BY <1>5, <1>6 DEF Waiting
    <3>4. InRead(e) = {}
      BY <1>5, <1>6 DEF InRead, Number
    <3>5. QED
      BY <3>1, <3>2, <3>3, <3>4
  <2>2. Growing(buffered[Owner[e]], e)' /\ Before(InRead(e)', Waiting(e)')
    BY <1>2, <1>5, <1>6, Parted DEF InRead, Waiting, InOrder
  <2>3. QED
    BY <1>2, <1>3, <1>4, <2>1, <2>2, ReportsMove
<1>7. CASE Owner[e] # c
  <2>1. /\ InRead(e)' = InRead(e) /\ Waiting(e)' = Waiting(e)
        /\ Growing(buffered[Owner[e]], e)'
    BY <1>2, <1>5, <1>7 DEF InRead, Waiting, InOrder
  <2>2. QED
    BY <1>2, <1>3, <1>4, <2>1, ReportsMove
<1>8. QED
  BY <1>6, <1>7

\* The client dispatches the event of its read, or gives it up because it stops.
LEMMA ClientTakes ==
  ASSUME OrderInv, TypeInv, ReadInv, NEW c \in Clients, ReadDone(c),
         \A e \in Clients : Undisturbed(e)' => Undisturbed(e)
  PROVE  OrderInv'
<1>1. SUFFICES ASSUME NEW e \in Devices
               PROVE  InOrder(e)'
  BY DEF OrderInv
<1>2. /\ InOrder(e) /\ Owner[e] \in Clients /\ received[Owner[e]] \in Seq(Events)
      /\ result[c] \in Outputs
  BY FlowTypes DEF OrderInv, TypeInv, TypeOK, Outputs
<1>3. buffered' = buffered /\ holds' = holds /\ sent' = sent /\ stop' = stop
  BY DEF ReadDone, deviceVars, callbackVars
<1>4. /\ Waiting(e)' = Waiting(e) /\ Carries(e)' = Carries(e)
      /\ Growing(buffered[Owner[e]], e)'
  BY <1>2, <1>3 DEF Waiting, Carries, InOrder
<1>5. /\ result'[c] = NoEvent
      /\ Owner[e] # c => /\ result'[Owner[e]] = result[Owner[e]]
                         /\ received'[Owner[e]] = received[Owner[e]]
  BY <1>2 DEF ReadDone, TypeInv, TypeOK
<1>6. CASE Owner[e] # c
  <2>1. /\ InRead(e)' = InRead(e) /\ Got(e)' = Got(e)
        /\ Growing(received[Owner[e]], e)'
    BY <1>2, <1>5, <1>6 DEF InRead, Got, InOrder
  <2>2. QED
    BY <1>2, <1>3, <1>4, <2>1, ReportsMove
<1>7. CASE Owner[e] = c /\ reader[c] = "wait" /\ result[c] # NoEvent
  <2>1. received'[c] = Append(received[c], result[c]) /\ result[c] \in Events
    BY <1>2, <1>7 DEF ReadDone, TypeInv, TypeOK, Outputs
  <2>2. Before(Got(e), InRead(e)) /\ Growing(received[c], e)
    BY <1>2, <1>7 DEF InOrder, Before
  <2>3. Got(e)' = Got(e) \cup InRead(e) /\ Growing(received[Owner[e]], e)'
    BY <1>2, <1>7, <2>1, <2>2, Appended DEF Got, InRead
  <2>4. InRead(e)' = {}
    BY <1>5, <1>7 DEF InRead, Number
  <2>5. QED
    BY <1>2, <1>3, <1>4, <2>3, <2>4, ReportsMove
<1>8. CASE Owner[e] = c /\ result[c] = NoEvent
  <2>1. received'[c] = received[c]
    BY <1>8 DEF ReadDone
  <2>2. /\ Got(e)' = Got(e) /\ InRead(e)' = InRead(e) /\ Growing(received[Owner[e]], e)'
    BY <1>2, <1>5, <1>8, <2>1 DEF Got, InRead, InOrder
  <2>3. QED
    BY <1>2, <1>3, <1>4, <2>2, ReportsMove
<1>9. CASE Owner[e] = c /\ reader[c] = "drain"
  <2>1. received'[c] = received[c] /\ ~Undisturbed(c)'
    BY <1>3, <1>9 DEF ReadDone, ReadInv, Undisturbed
  <2>2. /\ Got(e)' = Got(e) /\ InRead(e)' = {} /\ Growing(received[Owner[e]], e)'
    BY <1>2, <1>5, <1>9, <2>1 DEF Got, InRead, InOrder, Number
  <2>3. QED
    BY <1>2, <1>3, <1>4, <1>9, <2>1, <2>2, ReportsMove
<1>10. QED
  BY <1>6, <1>7, <1>8, <1>9 DEF ReadDone

\* What is buffered is dropped, for clients that get nothing any more.
LEMMA BufferDropped ==
  ASSUME OrderInv, TypeInv, UNCHANGED <<received, result, holds, sent>>,
         \A c \in Clients :
           \/ buffered'[c] = buffered[c] /\ (Undisturbed(c)' => Undisturbed(c))
           \/ buffered'[c] = <<>> /\ ~Undisturbed(c)'
  PROVE  OrderInv'
<1>1. SUFFICES ASSUME NEW e \in Devices
               PROVE  InOrder(e)'
  BY DEF OrderInv
<1>2. InOrder(e) /\ Owner[e] \in Clients
  BY OutputAssumption DEF OrderInv
<1>3. /\ Got(e)' = Got(e) /\ InRead(e)' = InRead(e) /\ Carries(e)' = Carries(e)
      /\ Growing(received[Owner[e]], e)'
  BY <1>2 DEF Got, InRead, Carries, InOrder
<1>4. CASE /\ buffered'[Owner[e]] = buffered[Owner[e]]
           /\ Undisturbed(Owner[e])' => Undisturbed(Owner[e])
  <2>1. Waiting(e)' = Waiting(e) /\ Growing(buffered[Owner[e]], e)'
    BY <1>2, <1>4 DEF Waiting, InOrder
  <2>2. QED
    BY <1>2, <1>3, <1>4, <2>1, ReportsMove
<1>5. CASE buffered'[Owner[e]] = <<>> /\ ~Undisturbed(Owner[e])'
  <2>1. Waiting(e)' = {} /\ Growing(buffered[Owner[e]], e)'
    BY <1>5, Nothing DEF Waiting
  <2>2. QED
    BY <1>2, <1>3, <1>5, <2>1, ReportsMove
<1>6. QED
  BY <1>2, <1>4, <1>5

\* A read that is completed without an event had none.
LEMMA EmptyAnswer ==
  ASSUME TypeInv, ReadInv, NEW c \in Clients, read[c] # "done", Complete(c, NoEvent)
  PROVE  result' = result
BY DEF Complete, ReadInv, TypeInv, TypeOK

\* No step breaks the order of reports.
LEMMA OrderInvNext ==
  ASSUME TypeInv, ReadInv, HoldsNewest, NothingBefore, OrderInv, [Next]_vars PROVE OrderInv'
<1>0. \A e \in Clients : Undisturbed(e)' => Undisturbed(e)
  BY UndisturbedBefore DEF NoneResumes
<1>1. ASSUME NEW d \in Devices, CreateDevice(d) PROVE OrderInv'
  <2>1. UNCHANGED <<received, result, buffered, holds, sent>>
    BY <1>1 DEF CreateDevice, callbackVars, requestVars, endVars, clientVars
  <2>2. QED
    BY <1>0, <2>1, NothingMoves
<1>2. ASSUME NEW d \in Devices, RegisterDevice(d) PROVE OrderInv'
  <2>1. UNCHANGED <<received, result, buffered, holds, sent>>
    BY <1>2 DEF RegisterDevice, callbackVars, requestVars, endVars, clientVars
  <2>2. QED
    BY <1>0, <2>1, NothingMoves
<1>3. ASSUME NEW d \in Devices, DestroyDevice(d) PROVE OrderInv'
  <2>1. UNCHANGED <<received, result, buffered, holds, sent>>
    BY <1>3 DEF DestroyDevice, callbackVars, requestVars, endVars, clientVars
  <2>2. QED
    BY <1>0, <2>1, NothingMoves
<1>4. ASSUME ResetDevices PROVE OrderInv'
  <2>1. UNCHANGED <<received, result, buffered, holds, sent>>
    BY <1>4 DEF ResetDevices, callbackVars, requestVars, endVars, clientVars
  <2>2. QED
    BY <1>0, <2>1, NothingMoves
<1>5. ASSUME NEW d \in Devices, DeleteDevice(d) PROVE OrderInv'
  <2>1. UNCHANGED <<received, result, buffered, holds, sent>>
    BY <1>5 DEF DeleteDevice, callbackVars, requestVars, endVars, clientVars
  <2>2. QED
    BY <1>0, <2>1, NothingMoves
<1>6. ASSUME NEW d \in Devices, WriteReport(d) PROVE OrderInv'
  BY <1>6, <1>0, HostWrites
<1>7. ASSUME NEW d \in Devices, BufferEvent(d) PROVE OrderInv'
  <2>1. /\ vhf[d] # "idle" /\ Buffer(holds[d]) /\ CallbackReturns(d)
        /\ UNCHANGED <<received, result, sent>>
    BY <1>7 DEF BufferEvent, deviceVars, requestVars, clientVars
  <2>2. QED
    BY <1>0, <2>1, CallbackKeeps
<1>8. ASSUME NEW d \in Devices, TakeRead(d) PROVE OrderInv'
  <2>1. UNCHANGED <<received, result, buffered, holds, sent>>
    BY <1>8 DEF TakeRead, deviceVars, endVars, clientVars
  <2>2. QED
    BY <1>0, <2>1, NothingMoves
<1>9. ASSUME NEW d \in Devices, CompleteRead(d) PROVE OrderInv'
  BY <1>9, <1>0, CallbackAnswers
<1>10. ASSUME NEW d \in Devices, UnmarkFails(d) PROVE OrderInv'
  <2>1. UNCHANGED <<received, result, buffered, holds, sent>>
    BY <1>10 DEF UnmarkFails, deviceVars, requestVars, endVars, clientVars
  <2>2. QED
    BY <1>0, <2>1, NothingMoves
<1>11. ASSUME NEW d \in Devices, RebufferEvent(d) PROVE OrderInv'
  <2>1. /\ vhf[d] # "idle" /\ Buffer(holds[d]) /\ CallbackReturns(d)
        /\ UNCHANGED <<received, result, sent>>
    BY <1>11 DEF RebufferEvent, deviceVars, requestVars, clientVars
  <2>2. QED
    BY <1>0, <2>1, CallbackKeeps
<1>12. ASSUME NEW c \in Clients, AnswerRead(c) PROVE OrderInv'
  BY <1>12, <1>0, BufferAnswers
<1>13. ASSUME NEW c \in Clients, KeepRead(c) PROVE OrderInv'
  <2>1. UNCHANGED <<received, result, buffered, holds, sent>>
    BY <1>13 DEF KeepRead, deviceVars, callbackVars, endVars, clientVars
  <2>2. QED
    BY <1>0, <2>1, NothingMoves
<1>14. ASSUME NEW c \in Clients, MarkFails(c) PROVE OrderInv'
  <2>1. /\ UNCHANGED <<received, buffered, holds, sent>>
        /\ result' = result \/ (read[c] # "done" /\ Complete(c, NoEvent))
    BY <1>14 DEF MarkFails, deviceVars, callbackVars, endVars, clientVars
  <2>2. result' = result
    BY <2>1, EmptyAnswer
  <2>3. QED
    BY <1>0, <2>1, <2>2, NothingMoves
<1>15. ASSUME NEW c \in Clients, QueueFails(c) PROVE OrderInv'
  <2>1. /\ UNCHANGED <<received, buffered, holds, sent>>
        /\ result' = result \/ (read[c] # "done" /\ Complete(c, NoEvent))
    BY <1>15 DEF QueueFails, deviceVars, callbackVars, endVars, clientVars
  <2>2. result' = result
    BY <2>1, EmptyAnswer
  <2>3. QED
    BY <1>0, <2>1, <2>2, NothingMoves
<1>16. ASSUME NEW c \in Clients, CancelRoutine(c) PROVE OrderInv'
  <2>1. /\ UNCHANGED <<received, buffered, holds, sent>>
        /\ result' = result \/ (read[c] # "done" /\ Complete(c, NoEvent))
    BY <1>16 DEF CancelRoutine, deviceVars, callbackVars, endVars, clientVars
  <2>2. result' = result
    BY <2>1, EmptyAnswer
  <2>3. QED
    BY <1>0, <2>1, <2>2, NothingMoves
<1>17. ASSUME NEW c \in Clients, CleanupDevices(c) PROVE OrderInv'
  <2>1. UNCHANGED <<received, result, buffered, holds, sent>>
    BY <1>17 DEF CleanupDevices, callbackVars, requestVars, clientVars
  <2>2. QED
    BY <1>0, <2>1, NothingMoves
<1>18. ASSUME NEW c \in Clients, CleanupRequests(c) PROVE OrderInv'
  <2>1. /\ UNCHANGED <<received, result, holds, sent>> /\ cleanup[c] = "devices"
        /\ buffered' = [buffered EXCEPT ![c] = <<>>]
    BY <1>18 DEF CleanupRequests, deviceVars, callbackVars, clientVars
  <2>2. ~Undisturbed(c)'
    BY <1>0, <2>1 DEF ReadInv, HandleOpen, Undisturbed
  <2>3. \A e \in Clients :
          \/ buffered'[e] = buffered[e] /\ (Undisturbed(e)' => Undisturbed(e))
          \/ buffered'[e] = <<>> /\ ~Undisturbed(e)'
    BY <1>0, <2>1, <2>2 DEF TypeInv, TypeOK
  <2>4. QED
    BY <2>1, <2>3, BufferDropped
<1>19. ASSUME NEW c \in Clients, CleanupCompletes(c) PROVE OrderInv'
  <2>1. /\ UNCHANGED <<received, buffered, holds, sent>>
        /\ result' = result \/ (read[c] # "done" /\ Complete(c, NoEvent))
    BY <1>19 DEF CleanupCompletes, CompleteIfUnmarked, deviceVars, callbackVars, clientVars
  <2>2. result' = result
    BY <2>1, EmptyAnswer
  <2>3. QED
    BY <1>0, <2>1, <2>2, NothingMoves
<1>20. ASSUME ReleaseHardware PROVE OrderInv'
  <2>1. /\ UNCHANGED <<received, result, holds, sent>> /\ hardware' = "requests"
        /\ buffered' = [e \in Clients |-> <<>>]
    BY <1>20 DEF ReleaseHardware, deviceVars, callbackVars, clientVars
  <2>2. \A e \in Clients : buffered'[e] = <<>> /\ ~Undisturbed(e)'
    BY <2>1 DEF Undisturbed
  <2>3. QED
    BY <2>1, <2>2, BufferDropped
<1>21. ASSUME NEW c \in Clients, ReleaseCompletes(c) PROVE OrderInv'
  <2>1. /\ UNCHANGED <<received, buffered, holds, sent>>
        /\ result' = result \/ (read[c] # "done" /\ Complete(c, NoEvent))
    BY <1>21 DEF ReleaseCompletes, CompleteIfUnmarked, deviceVars, callbackVars, clientVars
  <2>2. result' = result
    BY <2>1, EmptyAnswer
  <2>3. QED
    BY <1>0, <2>1, <2>2, NothingMoves
<1>22. ASSUME ReleaseDevices PROVE OrderInv'
  <2>1. UNCHANGED <<received, result, buffered, holds, sent>>
    BY <1>22 DEF ReleaseDevices, callbackVars, requestVars, clientVars
  <2>2. QED
    BY <1>0, <2>1, NothingMoves
<1>23. ASSUME Released PROVE OrderInv'
  <2>1. UNCHANGED <<received, result, buffered, holds, sent>>
    BY <1>23 DEF Released, deviceVars, callbackVars, requestVars, clientVars
  <2>2. QED
    BY <1>0, <2>1, NothingMoves
<1>24. ASSUME NEW c \in Clients, StartRead(c) PROVE OrderInv'
  <2>1. UNCHANGED <<received, result, buffered, holds, sent>>
    BY <1>24 DEF StartRead, deviceVars, callbackVars, endVars
  <2>2. QED
    BY <1>0, <2>1, NothingMoves
<1>25. ASSUME NEW c \in Clients, ReadDone(c) PROVE OrderInv'
  BY <1>25, <1>0, ClientTakes
<1>26. ASSUME NEW c \in Clients, CancelRead(c) PROVE OrderInv'
  <2>1. UNCHANGED <<received, result, buffered, holds, sent>>
    BY <1>26 DEF CancelRead, deviceVars, callbackVars, endVars
  <2>2. QED
    BY <1>0, <2>1, NothingMoves
<1>27. ASSUME NEW c \in Clients, LoopEnds(c) PROVE OrderInv'
  <2>1. UNCHANGED <<received, result, buffered, holds, sent>>
    BY <1>27 DEF LoopEnds, deviceVars, callbackVars, requestVars, endVars
  <2>2. QED
    BY <1>0, <2>1, NothingMoves
<1>28. ASSUME NEW c \in Clients, SetStopEvent(c) PROVE OrderInv'
  <2>1. UNCHANGED <<received, result, buffered, holds, sent>>
    BY <1>28 DEF SetStopEvent, deviceVars, callbackVars, requestVars, endVars
  <2>2. QED
    BY <1>0, <2>1, NothingMoves
<1>29. ASSUME NEW c \in Clients, RequestStop(c) PROVE OrderInv'
  <2>1. UNCHANGED <<received, result, buffered, holds, sent>>
    BY <1>29 DEF RequestStop, deviceVars, callbackVars, requestVars, endVars
  <2>2. QED
    BY <1>0, <2>1, NothingMoves
<1>30. ASSUME NEW c \in Clients, ClientDies(c) PROVE OrderInv'
  <2>1. UNCHANGED <<received, result, buffered, holds, sent>>
    BY <1>30 DEF ClientDies, deviceVars, callbackVars, endVars
  <2>2. QED
    BY <1>0, <2>1, NothingMoves
<1>31. CASE UNCHANGED vars
  <2>1. UNCHANGED <<received, result, buffered, holds, sent>>
    BY <1>31 DEF vars, deviceVars, callbackVars, requestVars, endVars, clientVars
  <2>2. QED
    BY <1>0, <2>1, NothingMoves
<1>32. QED
  BY <1>1, <1>2, <1>3, <1>4, <1>5, <1>6, <1>7, <1>8, <1>9, <1>10, <1>11, <1>12, <1>13,
    <1>14, <1>15, <1>16, <1>17, <1>18, <1>19, <1>20, <1>21, <1>22, <1>23, <1>24, <1>25,
    <1>26, <1>27, <1>28, <1>29, <1>30, <1>31 DEF
    Next, VhfStep, ReadStep, CleanupStep, ReaderStep

\* The order in the parts is that of the whole stream.
LEMMA OrderKept ==
  ASSUME TypeInv, BufferInv, OwnEvents, OrderInv
  PROVE  ReportsInOrder
<1>1. ASSUME NEW d \in Devices
      PROVE  LET s == Stream(Owner[d], d)
             IN /\ Numbers(s, d) = Got(d) \cup InRead(d) \cup Waiting(d) \cup Carries(d)
                /\ Growing(s, d)
  <2> DEFINE c == Owner[d]
             got == received[c]
             read1 == <<result[c]>>
             wait == buffered[c]
             call == <<holds[d]>>
  <2>1. /\ got \in Seq(Outputs) /\ read1 \in Seq(Outputs)
        /\ wait \in Seq(Outputs) /\ call \in Seq(Outputs)
        /\ result[c] \in Outputs /\ holds[d] \in Outputs
    BY <1>1, FlowTypes DEF Outputs
  <2>2. InOrder(d)
    BY <1>1 DEF OrderInv
  <2>3. /\ Numbers(got, d) = Got(d) /\ Numbers(read1, d) = InRead(d)
        /\ Numbers(wait, d) = Waiting(d) /\ Numbers(call, d) = Carries(d)
        /\ Growing(got, d) /\ Growing(read1, d) /\ Growing(wait, d) /\ Growing(call, d)
    BY <2>1, <2>2, Single DEF InOrder, Got, InRead, Waiting, Carries
  <2> HIDE DEF got, read1, wait, call
  <2>4. /\ (got \o read1) \in Seq(Outputs) /\ ((got \o read1) \o wait) \in Seq(Outputs)
    BY <2>1
  <2>5. /\ Numbers(got \o read1, d) = Got(d) \cup InRead(d)
        /\ Growing(got \o read1, d)
    <3>1. Before(Got(d), InRead(d))
      BY <2>2 DEF InOrder, Before
    <3>2. QED
      BY <2>1, <2>3, <3>1, Joined
  <2>6. /\ Numbers((got \o read1) \o wait, d) = Got(d) \cup InRead(d) \cup Waiting(d)
        /\ Growing((got \o read1) \o wait, d)
    <3>1. Before(Got(d) \cup InRead(d), Waiting(d))
      BY <2>2 DEF InOrder, Before
    <3>2. /\ Numbers((got \o read1) \o wait, d) = Numbers(got \o read1, d) \cup Numbers(wait, d)
          /\ Growing((got \o read1) \o wait, d) <=>
               /\ Growing(got \o read1, d) /\ Growing(wait, d)
               /\ Before(Numbers(got \o read1, d), Numbers(wait, d))
      BY <2>1, <2>4, Joined
    <3>3. QED
      BY <2>3, <2>5, <3>1, <3>2
  <2>7. /\ Numbers(((got \o read1) \o wait) \o call, d)
             = Got(d) \cup InRead(d) \cup Waiting(d) \cup Carries(d)
        /\ Growing(((got \o read1) \o wait) \o call, d)
    <3>1. Before(Got(d) \cup InRead(d) \cup Waiting(d), Carries(d))
      BY <2>2 DEF InOrder, Before
    <3>2. /\ Numbers(((got \o read1) \o wait) \o call, d)
               = Numbers((got \o read1) \o wait, d) \cup Numbers(call, d)
          /\ Growing(((got \o read1) \o wait) \o call, d) <=>
               /\ Growing((got \o read1) \o wait, d) /\ Growing(call, d)
               /\ Before(Numbers((got \o read1) \o wait, d), Numbers(call, d))
      BY <2>1, <2>4, Joined
    <3>3. QED
      BY <2>3, <2>6, <3>1, <3>2
  <2>8. Stream(Owner[d], d) = ((got \o read1) \o wait) \o call
    BY DEF Stream, got, read1, wait, call
  <2>9. QED
    BY <2>7, <2>8
<1>2. OutputsInOrder
  BY <1>1 DEF OutputsInOrder, OrderInv, InOrder
<1>3. NoneRepeated
  <2>1. SUFFICES ASSUME NEW c \in Clients, NEW d \in Devices
                 PROVE  Growing(received[c], d)
    BY DEF NoneRepeated
  <2>2. CASE Owner[d] = c
    BY <2>2 DEF OrderInv, InOrder
  <2>3. CASE Owner[d] # c
    <3>1. Of(received[c], d) = {}
      BY <2>3 DEF Of, OwnEvents
    <3>2. QED
      BY <3>1 DEF Growing
  <2>4. QED
    BY <2>2, <2>3
<1>4. QED
  BY <1>2, <1>3 DEF ReportsInOrder

\* No report at the start.
LEMMA FlowInit ==
  Init => ReadInv /\ HoldsNewest /\ Forsaken /\ WaitsForEvent /\ NothingBefore
          /\ OwnEvents /\ OrderInv
<1>1. SUFFICES ASSUME Init
               PROVE  ReadInv /\ HoldsNewest /\ Forsaken /\ WaitsForEvent /\ NothingBefore
                      /\ OwnEvents /\ OrderInv
  OBVIOUS
<1>2. ReadInv /\ HoldsNewest /\ Forsaken /\ WaitsForEvent /\ NothingBefore /\ OwnEvents
  BY <1>1, OutputAssumption
  DEF Init, ReadInv, HoldsNewest, Forsaken, WaitsForEvent, NothingBefore, OwnEvents, HandleOpen
<1>3. ASSUME NEW d \in Devices
      PROVE  InOrder(d)
  <2>1. /\ received[Owner[d]] = <<>> /\ buffered[Owner[d]] = <<>>
        /\ result[Owner[d]] = NoEvent /\ holds[d] = NoEvent /\ sent[d] = 0
    BY <1>1, OutputAssumption DEF Init
  <2>2. Got(d) = {} /\ InRead(d) = {} /\ Waiting(d) = {} /\ Carries(d) = {}
    BY <2>1, Nothing DEF Got, InRead, Waiting, Carries, Number
  <2>3. Growing(received[Owner[d]], d) /\ Growing(buffered[Owner[d]], d)
    BY <2>1, Nothing
  <2>4. QED
    BY <2>1, <2>2, <2>3 DEF InOrder, Before
<1>4. QED
  BY <1>2, <1>3 DEF OrderInv

\* What the order of reports needs.
FlowInv ==
  ReadInv /\ HoldsNewest /\ Forsaken /\ WaitsForEvent /\ NothingBefore /\ OwnEvents /\ OrderInv

\* Each part needs those before it.
LEMMA FlowInvNext ==
  ASSUME TypeInv, OwnerInv, BufferInv, FlowInv, [Next]_vars PROVE FlowInv'
<1>1. ReadInv' /\ HoldsNewest' /\ Forsaken'
  BY ReadInvNext, HoldsNewestNext, ForsakenNext DEF FlowInv
<1>2. WaitsForEvent' /\ NothingBefore' /\ OwnEvents'
  BY WaitsForEventNext, NothingBeforeNext, OwnEventsNext DEF FlowInv
<1>3. OrderInv'
  BY OrderInvNext DEF FlowInv
<1>4. QED
  BY <1>1, <1>2, <1>3 DEF FlowInv

-----------------------------------------------------------------------------
\* The inductive invariant.  The owners of a read need the types, the types need
\* that nobody completes a read another has; the cleanup of a handle needs both, and
\* the order of reports all of them.
IInv == TypeInv /\ OwnerInv /\ CleaningInv /\ BufferInv /\ FlowInv

\* Every reachable state satisfies the inductive invariant.
THEOREM Invariance == Spec => []IInv
<1>1. Init => IInv
  BY TypeInvInit, OwnerInvInit, CleaningInvInit, FlowInit DEF IInv, BufferInv, FlowInv
<1>2. IInv /\ [Next]_vars => IInv'
  BY TypeInvNext, OwnerInvNext, CleaningInvNext, BufferInvNext, FlowInvNext DEF IInv
<1>3. QED
  BY <1>1, <1>2, PTL DEF Spec

\* Requests, events, devices and threads keep their types whatever clients,
\* host and framework do.
THEOREM OutputTypeCorrect == Spec => []TypeOK
<1>1. IInv => TypeOK
  BY DEF IInv, TypeInv
<1>2. QED
  BY <1>1, Invariance, PTL

\* A read never has two owners, nor an owner after it was completed: no request
\* is completed twice, however VHF callback, cleanup, removal of the hardware
\* and cancel routine meet (libvirtualhid_umdf.cpp).
THEOREM OneOwnerHolds == Spec => []OneOwner
<1>1. IInv => OneOwner
  BY DEF IInv, OwnerInv
<1>2. QED
  BY <1>1, Invariance, PTL

\* After LvhEvtFileCleanup() the driver keeps no read of the handle and no event
\* but those of devices that another thread was destroying.
THEOREM CleanupComplete == Spec => []CleanedUp
<1>1. IInv => CleanedUp
  BY DEF IInv, BufferInv
<1>2. QED
  BY <1>1, Invariance, PTL

\* Every output report gets to the client of its device once and in the order in which the
\* host wrote them, however callbacks, reads and the buffer meet; and while the client
\* stops and its reads are cancelled, none comes twice or late (queue_output_event(),
\* complete_output_request() and output_loop()).
THEOREM ReportsComeInOrder == Spec => []ReportsInOrder
<1>1. IInv => ReportsInOrder
  BY OrderKept DEF IInv, FlowInv
<1>2. QED
  BY <1>1, Invariance, PTL

=============================================================================
