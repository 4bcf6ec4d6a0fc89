----------------------------- MODULE MCRuntime -----------------------------
(* The instance of Runtime for TLC: contact b is placed, contact a ended,   *)
(* a button pressed.                                                       *)
EXTENDS Runtime

CONSTANTS placeB, endA, button

InputContact == [i \in Inputs |-> IF i = placeB THEN "b" ELSE "a"]
=============================================================================
