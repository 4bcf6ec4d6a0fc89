----------------------------- MODULE MCDrivers ------------------------------
(* The two Windows drivers for TLC, one side at a time: of the UMDF driver *)
(* the input side of one device, or the output side with its clients,      *)
(* which is WindowsOutput, extended here; of the Xbox 360 driver either    *)
(* side of one device.                                                     *)
EXTENDS WindowsOutput

CONSTANTS Submitters, Readiers, Writers, Kinds, Limit, Reach, Moves, MaxReports,
          MaxPackets, Setters, Levels

CONSTANTS c1, d1, d2

VARIABLES
  machine,
  kind, deviceLife, del, handle, waiting, latest, ready, inFlight, active, pc, held, buffers,
  inputVhf, pushed, delivered, lost, refused,
  context, created, initialized, shutting, xboxHandle, xboxReady, packets, xboxLatest,
  xboxInFlight, xboxActive, packet, waits, xboxPc, xboxHeld, xboxVhf, xboxDelivered, seen,
  early, xboxRefused,
  life, levels, xboxBuffered, reads, setter, heard, crossed

WindowsInput == INSTANCE WindowsInput WITH life <- deviceLife, vhf <- inputVhf
XboxInput == INSTANCE XboxInput WITH
  handle <- xboxHandle, ready <- xboxReady, latest <- xboxLatest, inFlight <- xboxInFlight,
  active <- xboxActive, pc <- xboxPc, held <- xboxHeld, vhf <- xboxVhf, pending <- packets,
  delivered <- xboxDelivered, refused <- xboxRefused
XboxOutput == INSTANCE XboxOutput WITH buffered <- xboxBuffered

ASSUME DriversAssumption ==
  WindowsInput!InputAssumption /\ XboxInput!PacketsAssumption /\ XboxOutput!LevelsAssumption

windowsInputVars == <<kind, deviceLife, del, handle, waiting, latest, ready, inFlight, active, pc,
                      held, buffers, inputVhf, pushed, delivered, lost, refused>>
xboxInputVars == <<context, created, initialized, shutting, xboxHandle, xboxReady, packets,
                   xboxLatest, xboxInFlight, xboxActive, packet, waits, xboxPc, xboxHeld,
                   xboxVhf, xboxDelivered, seen, early, xboxRefused>>
xboxOutputVars == <<life, levels, xboxBuffered, reads, setter, heard, crossed>>
driversVars == <<machine, windowsInputVars, xboxInputVars, xboxOutputVars, vars>>

\* Motion in both directions, at the ends of what a report can carry.
EndMoves == {<<-Reach - 1, -Reach - 1>>, <<Reach, Reach>>}

\* One client with two devices.
OneClient == (d1 :> c1) @@ (d2 :> c1)

DriversInit ==
  /\ WindowsInput!Init /\ XboxInput!Init /\ XboxOutput!Init /\ Init
  /\ machine \in {"umdf_input", "umdf_output", "xbox_input", "xbox_output"}
  /\ machine # "umdf_input" => kind = "gamepad"

DriversNext ==
  /\ UNCHANGED machine
  /\ \/ /\ machine = "umdf_input" /\ WindowsInput!Next
        /\ UNCHANGED <<xboxInputVars, xboxOutputVars, vars>>
     \/ /\ machine = "umdf_output" /\ Next
        /\ UNCHANGED <<windowsInputVars, xboxInputVars, xboxOutputVars>>
     \/ /\ machine = "xbox_input" /\ XboxInput!Next
        /\ UNCHANGED <<windowsInputVars, xboxOutputVars, vars>>
     \/ /\ machine = "xbox_output" /\ XboxOutput!Next
        /\ UNCHANGED <<windowsInputVars, xboxInputVars, vars>>

\* The fairness of WindowsOutput, whose clients read from the start, where it runs.
OutputStep(step) == machine = "umdf_output" /\ step

OutputFairness ==
  /\ \A d \in Devices : WF_vars(OutputStep(VhfStep(d))) /\ WF_vars(OutputStep(DeleteDevice(d)))
  /\ \A c \in Clients : WF_vars(OutputStep(ReadStep(c))) /\ WF_vars(OutputStep(ReaderStep(c)))

DriversSpec ==
  /\ DriversInit /\ [][DriversNext]_driversVars
  /\ WindowsInput!Fairness /\ XboxInput!Fairness /\ XboxOutput!Fairness /\ OutputFairness

\* The variables of the drivers have their types, those of WindowsOutput in its TypeOK.
TypesOK == WindowsInput!TypeOK /\ XboxInput!TypeOK /\ XboxOutput!TypeOK

\* VHF gets one report for each time it asks, none once it is being deleted, and what
\* it and Windows refer to lives as long as they may use it.
WindowsContractKept ==
  WindowsInput!VhfContractKept /\ XboxInput!VhfContractKept /\ XboxInput!ContextOutlivesCallback

\* What the host is told is complete while reports fit, and up to date when they do not;
\* no motion is lost or made up.
ReportsKept ==
  WindowsInput!ReportsKept /\ WindowsInput!MotionConserved /\ XboxInput!NewestKept

\* The event of the levels a game set last is on its way to the client or there.
NewestNotLost == XboxOutput!NewestNotLost

\* What a client submits gets to the host, what a game sets to the client.
ReportsArrive ==
  WindowsInput!InputArrives /\ XboxInput!InputArrives /\ XboxOutput!RumbleArrives
=============================================================================
