------------------------------ MODULE MCUndoRedo ------------------------------
(* Instances of UndoRedo for TLC.                                          *)
EXTENDS UndoRedo, TLC
Symmetry == Permutations(Handler)
=============================================================================
