----------------------------- MODULE SerialUpdate -----------------------------
(***************************************************************************)
(* AtomicUpdate with a choice made at the start: either handlers wait for  *)
(* one another, as they do when one application sends all commands, or     *)
(* commands overlap, as they may, and the boot hooks do not run.           *)
(***************************************************************************)
EXTENDS AtomicUpdate

VARIABLE serial   \* whether a handler waits for the others to finish

\* At most one handler is between its load and its return.
OneBusy == \A g, h \in Handler : pc[g] # "idle" /\ pc[h] # "idle" => g = h

SerialInit == Init /\ serial \in BOOLEAN
SerialNext == /\ Next /\ UNCHANGED serial
              /\ serial  => OneBusy'
              /\ ~serial => \A h \in Handler : op'[h] \in Command
SerialSpec == SerialInit /\ [][SerialNext]_<<vars, serial>>

\* AtomicOperations for the behaviours without overlap: each operation is one
\* replacement of the table, failures of power and of files included ("atomic
\* activation/rollback").  A read that fails makes it a replacement by what
\* the operation makes of the default table, and never of a mixture.
SerialTable == INSTANCE SlotTable WITH table <- IF serial THEN saved_state ELSE default_state
AtomicWhenSerial == SerialTable!Spec

\* In them prepare_update writes to the standby slot: the image of the slot
\* the table calls active is replaced under it only if that is B and the table
\* could not be read, so that A was taken for the active one.  With an overlap,
\* any slot chosen may have become the active one by the time it is written.
SerialLeavesActive ==
  [][serial => \A s \in Slot :
       image'[s] # image[s] /\ s = active_slot(saved_state) => s = "B" /\ ~sound]_vars
==============================================================================
