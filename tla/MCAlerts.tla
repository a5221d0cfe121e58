------------------------------ MODULE MCAlerts ------------------------------
(* Instances of Alerts for TLC. *)
EXTENDS Alerts

CONSTANTS a1, a2, n1, n2
=============================================================================
