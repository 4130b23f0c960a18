---------------------------- MODULE MCAtomicUpdate ----------------------------
(* Instances of SerialUpdate for TLC, with every operation.                 *)
EXTENDS SerialUpdate

MCAll == Command \union BootHook
==============================================================================
