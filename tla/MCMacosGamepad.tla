--------------------------- MODULE MCMacosGamepad ---------------------------
(***************************************************************************)
(* The instance of MacosGamepad for TLC.                                   *)
(***************************************************************************)
EXTENDS MacosGamepad

CONSTANTS c1, c2

TwoClients == {c1, c2}
CallBounds == [t \in {c1, c2, Worker} |-> IF t = c1 THEN 2 ELSE 1]
=============================================================================
