----------------------------- MODULE MCStartup -----------------------------
(* Instances of Startup for TLC: an upgrade, with a server of the old release
   that is still being restarted. *)
EXTENDS Startup, TLC

CONSTANTS s1, s2

MCRelease == s1 :> 2 @@ s2 :> 3
=============================================================================
