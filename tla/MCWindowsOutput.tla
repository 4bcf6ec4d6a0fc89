-------------------------- MODULE MCWindowsOutput --------------------------
(***************************************************************************)
(* The instance of WindowsOutput with two clients for TLC.                 *)
(***************************************************************************)
EXTENDS WindowsOutput

CONSTANTS c1, c2, d1, d2

\* Two clients with one device each.
TwoClients == (d1 :> c1) @@ (d2 :> c2)

=============================================================================
