----------------------------- MODULE XboxOutput -----------------------------
(***************************************************************************)
(* Rumble of an Xbox 360 gamepad on Windows: games set the motors with     *)
(* XUSB requests that libvirtualhid_xbox360_umdf.cpp handles in parallel,  *)
(* and the output thread of WindowsGamepad reads the levels, one read at a *)
(* time.  The driver hands an event to a read that waits in output_queue,  *)
(* or keeps one event for the next read; it decides outside of its mutex,  *)
(* on both sides.  The life of the device is in XboxInput; here it is      *)
(* served and goes.  The two motors of an event are one level.             *)
(***************************************************************************)
EXTENDS Integers

CONSTANTS
  Setters,     \* threads of games that set the motors
  Levels       \* levels of the motors, with 0

LevelsAssumption == 0 \in Levels /\ Levels \subseteq Nat

VARIABLES
  life,        \* "new", "served" (initialized), "gone" (shutting_down), "done"
  levels,      \* low_frequency_rumble and high_frequency_rumble
  buffered,    \* buffered_output
  reads,       \* the client's read: "idle", "checked", or "queued" in output_queue
  setter,      \* setter[t]: where the handler of a game's request is, and its event
  heard,       \* history: the last level the client read
  crossed      \* history: an event was buffered behind a read, or two were set at once

vars == <<life, levels, buffered, reads, setter, heard, crossed>>

None == -1
Idle == [at |-> "idle"]

TypeOK ==
  /\ life \in {"new", "served", "gone", "done"}
  /\ {levels, heard} \subseteq Levels /\ buffered \in Levels \cup {None}
  /\ reads \in {"idle", "checked", "queued"} /\ crossed \in BOOLEAN
  /\ \A t \in Setters : setter[t] = Idle \/ setter[t] \in [at : {"raised", "buffer"}, event : Levels]

Init ==
  /\ life = "new" /\ levels = 0 /\ buffered = None /\ reads = "idle"
  /\ setter = [t \in Setters |-> Idle]
  /\ heard = 0 /\ crossed = FALSE

Raised == {t \in Setters : setter[t] # Idle}

-----------------------------------------------------------------------------
(* handle_read_output(), read again and again by stream_xbox360_output()   *)

\* Its critical section: the buffered event, or the read goes on to the queue.
ReadOutput ==
  /\ life = "served" /\ reads = "idle"
  /\ IF buffered # None
       THEN heard' = buffered /\ buffered' = None /\ UNCHANGED reads
       ELSE reads' = "checked" /\ UNCHANGED <<heard, buffered>>
  /\ UNCHANGED <<life, levels, setter, crossed>>

\* WdfRequestForwardToIoQueue(), which fails once the queues are stopped.
ForwardRead ==
  /\ reads = "checked"
  /\ reads' = (IF life = "served" THEN "queued" ELSE "idle")
  /\ crossed' = (crossed \/ buffered # None)
  /\ UNCHANGED <<life, levels, buffered, setter, heard>>

-----------------------------------------------------------------------------
(* queue_rumble_output()                                                   *)

\* Its first critical section: levels that are set already change nothing.
SetLevels(t) ==
  /\ life = "served" /\ setter[t] = Idle
  /\ \E level \in Levels \ {levels} :
       levels' = level /\ setter' = [setter EXCEPT ![t] = [at |-> "raised", event |-> level]]
  /\ crossed' = (crossed \/ Raised # {})
  /\ UNCHANGED <<life, buffered, reads, heard>>

\* WdfIoQueueRetrieveNextRequest(), and the read that it finds is completed.
RetrieveRead(t) ==
  /\ setter[t].at = "raised"
  /\ IF reads = "queued"
       THEN /\ heard' = setter[t].event /\ reads' = "idle"
            /\ setter' = [setter EXCEPT ![t] = Idle]
       ELSE /\ setter' = [setter EXCEPT ![t].at = "buffer"]
            /\ UNCHANGED <<heard, reads>>
  /\ UNCHANGED <<life, levels, buffered, crossed>>

\* Faulty: an event that is still buffered stays.
BufferKeeps(t) ==
  /\ setter[t].at = "buffer"
  /\ buffered' = (IF buffered = None THEN setter[t].event ELSE buffered)
  /\ setter' = [setter EXCEPT ![t] = Idle]
  /\ crossed' = (crossed \/ reads = "queued")
  /\ UNCHANGED <<life, levels, reads, heard>>

\* Its last critical section: the event replaces the one before.
BufferEvent(t) ==
  /\ setter[t].at = "buffer"
  /\ buffered' = setter[t].event
  /\ setter' = [setter EXCEPT ![t] = Idle]
  /\ crossed' = (crossed \/ reads = "queued")
  /\ UNCHANGED <<life, levels, reads, heard>>

-----------------------------------------------------------------------------
(* The end of initialize, and cleanup_driver_state(): its first critical   *)
(* section, with WDF completing the reads in the queue, and its last.      *)

Initialized ==
  /\ life = "new" /\ life' = "served"
  /\ UNCHANGED <<levels, buffered, reads, setter, heard, crossed>>

CleanupBegins ==
  /\ life = "served" /\ life' = "gone"
  /\ reads' = (IF reads = "queued" THEN "idle" ELSE reads)
  /\ UNCHANGED <<levels, buffered, setter, heard, crossed>>

CleanupEnds ==
  /\ life = "gone" /\ life' = "done" /\ buffered' = None
  /\ UNCHANGED <<levels, reads, setter, heard, crossed>>

-----------------------------------------------------------------------------
Step(t) == RetrieveRead(t) \/ BufferEvent(t)

Next ==
  \/ Initialized \/ ReadOutput \/ ForwardRead
  \/ \E t \in Setters : SetLevels(t) \/ Step(t)
  \/ CleanupBegins \/ CleanupEnds

Spec == Init /\ [][Next]_vars

\* The handlers run and the client goes on reading; no game has to set the motors.
Fairness ==
  /\ WF_vars(ReadOutput) /\ WF_vars(ForwardRead)
  /\ \A t \in Setters : WF_vars(Step(t))

FairSpec == Spec /\ Fairness

-----------------------------------------------------------------------------
\* The event of the levels a game set last is with its handler, in the buffer or with
\* the client, and nothing else waits that the client would read after it, unless an
\* event was buffered behind a read or two were set at once.
NewestNotLost ==
  life = "served" /\ ~crossed =>
    \/ \E t \in Setters : setter[t] # Idle /\ setter[t].event = levels
    \/ Raised = {} /\ buffered = levels
    \/ Raised = {} /\ buffered = None /\ heard = levels

\* The client ends up with the levels a game set last, under the same condition.
RumbleArrives ==
  \A level \in Levels :
    <>[](life = "served" /\ levels = level /\ ~crossed) => <>[](heard = level)

=============================================================================
