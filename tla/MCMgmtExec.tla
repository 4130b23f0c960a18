------------------------------ MODULE MCMgmtExec ------------------------------
(* Instances of MgmtExec for TLC.                                           *)
EXTENDS MgmtExec, TLC

CONSTANTS c1, c2, p1

\* A client that sends twice while each of the others sends once.
MCOverlap == c1 :> 2 @@ c2 :> 1 @@ p1 :> 1
==============================================================================
