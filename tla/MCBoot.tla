-------------------------------- MODULE MCBoot --------------------------------
(* Two packages and one handler: commands one after the other.             *)
EXTENDS Boot, TLC

CONSTANTS p1, p2, h1
===============================================================================
