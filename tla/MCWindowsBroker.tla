-------------------------- MODULE MCWindowsBroker --------------------------
(* Instances of WindowsBroker for TLC.                                    *)
EXTENDS WindowsBroker, TLC

CONSTANTS c1, c2, yearly, lifetime

=============================================================================
