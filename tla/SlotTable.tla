------------------------------ MODULE SlotTable ------------------------------
(***************************************************************************)
(* What the updater promises: the slot table is one value, and every       *)
(* operation replaces it in one step by what it makes of the table, or, if *)
(* that cannot be read, of the default table.                              *)
(***************************************************************************)
EXTENDS SlotOps

VARIABLES table, sound

Init == table = default_state /\ sound \in BOOLEAN

Prepare(st)     == \E i \in Image : table' = Prepared(st, i)
Activate(st)    == CanActivate(st) /\ table' = Activated(st)
Rollback(st)    == table' = RolledBack(st)
CheckHealth(st) == table' = HealthChecked(st)
MarkBoot(st)    == table' = BootMarked(st)

Next ==
  /\ \E st \in {table} \union IF sound THEN {} ELSE {default_state} :
       Prepare(st) \/ Activate(st) \/ Rollback(st) \/ CheckHealth(st) \/ MarkBoot(st)
  /\ UNCHANGED sound

Spec == Init /\ [][Next]_<<table, sound>>
==============================================================================
