------------------------------ MODULE MCWorker ------------------------------
(* Instances of Worker for TLC. *)
EXTENDS Worker

CONSTANTS r1, r2, r3, r4, g1, g2
=============================================================================
