----------------------------- MODULE MCWatchdog -----------------------------
(* An application that is watched and one that is not, both in the         *)
(* background.                                                             *)
EXTENDS Watchdog, TLC

CONSTANTS a1, a2

MCSecs == a1 :> 2 @@ a2 :> 0
=============================================================================
