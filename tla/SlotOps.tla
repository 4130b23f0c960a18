------------------------------- MODULE SlotOps -------------------------------
(***************************************************************************)
(* The slot table of the A/B operating-system updater                      *)
(* (supervisor/src/atomic_update.rs) and what each operation makes of it:  *)
(* the bodies of the *_inner functions without their file accesses.        *)
(***************************************************************************)
EXTENDS Naturals

CONSTANTS Image,   \* the initramfs images an operator can stage
          NoImage  \* the empty sha256 of a slot nothing was staged to

ASSUME ImageAssumption == NoImage \notin Image

Slot == {"A", "B"}
SlotStatus == {"active", "standby", "pending", "invalid"}

\* `version` is never assigned by the code and is left out.
SlotInfo == [status : SlotStatus,
             sha256 : Image \union {NoImage},
             boot_count : Nat]

SlotState == [Slot -> SlotInfo]

MAX_BOOT_COUNT == 3

default_state ==
  [s \in Slot |-> [status |-> IF s = "A" THEN "active" ELSE "standby",
                   sha256 |-> NoImage,
                   boot_count |-> 0]]

\* Only slot A's status is looked at: a table without an active slot would be
\* read as "B is active".
active_slot(st)  == IF st["A"].status = "active" THEN "A" ELSE "B"
standby_slot(st) == IF st["A"].status = "active" THEN "B" ELSE "A"

Prepared(st, i) ==
  [st EXCEPT ![standby_slot(st)] =
     [status |-> "pending", sha256 |-> i, boot_count |-> 0]]

CanActivate(st) == st[standby_slot(st)].status = "pending"

\* Mutant: the slot that was active is not demoted.
ActivatedKeepsOld(st) ==
  [st EXCEPT ![standby_slot(st)].status = "active", ![standby_slot(st)].boot_count = 0]

Activated(st) ==
  [s \in Slot |->
     IF s = standby_slot(st)
     THEN [st[s] EXCEPT !.status = "active", !.boot_count = 0]
     ELSE [st[s] EXCEPT !.status = "standby"]]

\* Mutant: a status that SlotStatus does not have.
RolledBackToFailed(st) ==
  [s \in Slot |->
     [st[s] EXCEPT !.status = IF s = standby_slot(st) THEN "active" ELSE "failed"]]

\* Whatever the other slot holds, it becomes active; its boot_count stays.
RolledBack(st) ==
  [s \in Slot |->
     [st[s] EXCEPT !.status = IF s = standby_slot(st) THEN "active" ELSE "invalid"]]

HealthChecked(st) ==
  LET counted == [st EXCEPT ![active_slot(st)].boot_count = @ + 1]
  IN  IF counted[active_slot(st)].boot_count > MAX_BOOT_COUNT
      THEN RolledBack(counted)
      ELSE counted

BootMarked(st) == [st EXCEPT ![active_slot(st)].boot_count = 0]
==============================================================================
