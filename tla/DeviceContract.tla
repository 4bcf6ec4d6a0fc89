--------------------------- MODULE DeviceContract ---------------------------
(***************************************************************************)
(* What the public device handles promise their client, with no locks, no  *)
(* threads and no backend: a device is created once, accepts inputs only   *)
(* while it is open, keeps the last input it accepted, and once closed is  *)
(* closed for good.  Runtime implements this specification.                *)
(***************************************************************************)
EXTENDS Naturals

CONSTANTS Devices,  \* device ids
          Inputs,   \* what a client may submit
          NoInput   \* the value-initialised input of a new device

VARIABLES phase,     \* phase[d]: "none", "open" or "closed"
          last,      \* last[d]: the last input the device accepted
          accepted   \* accepted[d]: how many inputs the device accepted

vars == <<phase, last, accepted>>

Init ==
  /\ phase = [d \in Devices |-> "none"]
  /\ last = [d \in Devices |-> NoInput]
  /\ accepted = [d \in Devices |-> 0]

Create(d) ==
  /\ phase[d] = "none"
  /\ phase' = [phase EXCEPT ![d] = "open"]
  /\ UNCHANGED <<last, accepted>>

Accept(d, i) ==
  /\ phase[d] = "open"
  /\ last' = [last EXCEPT ![d] = i]
  /\ accepted' = [accepted EXCEPT ![d] = @ + 1]
  /\ UNCHANGED phase

Close(d) ==
  /\ phase[d] = "open"
  /\ phase' = [phase EXCEPT ![d] = "closed"]
  /\ UNCHANGED <<last, accepted>>

Next ==
  \E d \in Devices :
    \/ Create(d)
    \/ Close(d)
    \/ \E i \in Inputs : Accept(d, i)

Spec == Init /\ [][Next]_vars
=============================================================================
