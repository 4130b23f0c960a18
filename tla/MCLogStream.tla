---------------------------- MODULE MCLogStream ----------------------------
(* One client, two instances of two lines each and a buffer of one line.   *)
EXTENDS LogStream
=============================================================================
