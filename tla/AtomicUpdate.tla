----------------------------- MODULE AtomicUpdate -----------------------------
(***************************************************************************)
(* P108, supervisor/src/atomic_update.rs: the A/B slots of the operating   *)
(* system image.  Every operation loads slot-state.toml, computes the next *)
(* table, writes it to slot-state.toml.tmp and renames that file over the  *)
(* first.  No lock covers the sequence, and a handler runs in the reader   *)
(* thread of the app that sent the command, so several may be between load *)
(* and rename at once.  Power may fail between any two steps, and a table  *)
(* that cannot be read is taken for the default one.                       *)
(*                                                                         *)
(* Abstractions: an image is its SHA-256; all staged images carry the same *)
(* file name, so they meet in the slot directory; fs::write of a temporary *)
(* file is one step.                                                       *)
(***************************************************************************)
EXTENDS SlotOps

CONSTANTS Handler,    \* threads that can be running an update operation
          Operation,  \* the operations they run
          BootBound,  \* bound on boot_count, a u32 in the code
          Absent      \* a file that does not exist

\* update-prepare, -activate and -rollback are commands; the last two are the
\* hooks for the boot sequence, which only the unit tests call.
Command  == {"prepare", "activate", "rollback"}
BootHook == {"check_health_on_boot", "mark_boot_successful"}

ASSUME OperationAssumption == Operation \subseteq Command \union BootHook
ASSUME BootBoundAssumption == BootBound \in Nat
ASSUME AbsentAssumption == Absent \notin SlotState /\ Absent \notin Image

VARIABLES
  file,     \* /data/slots/slot-state.toml
  tmp,      \* /data/slots/slot-state.toml.tmp
  image,    \* the image in the directory of each slot
  imageTmp, \* the half-installed <image>.tmp in the directory of each slot
  pc,       \* where each handler is
  op,       \* the operation it runs
  state,    \* its in-memory SlotState
  sound     \* slot-state.toml can always be read and parsed, if it is there

vars == <<file, tmp, image, imageTmp, pc, op, state, sound>>
disk == <<file, tmp, image, imageTmp>>

\* What the disk holds, and what an operation may load: load_state_from takes
\* an error of any kind for a file that is not there.
saved_state == IF file = Absent THEN default_state ELSE file
load_state  == {saved_state} \union IF sound THEN {} ELSE {default_state}

Control == {"idle", "verify", "copy", "install", "write", "publish"}

TypeOK ==
  /\ file \in SlotState \union {Absent}
  /\ tmp \in SlotState \union {Absent}
  /\ image \in [Slot -> Image \union {NoImage, Absent}]
  /\ imageTmp \in [Slot -> Image \union {NoImage, Absent}]
  /\ pc \in [Handler -> Control]
  /\ op \in [Handler -> Command \union BootHook]
  /\ state \in [Handler -> SlotState]
  /\ sound \in BOOLEAN

Init ==
  /\ file = Absent
  /\ tmp = Absent
  /\ image = [s \in Slot |-> Absent]
  /\ imageTmp = [s \in Slot |-> Absent]
  /\ pc = [h \in Handler |-> "idle"]
  /\ op = [h \in Handler |-> "prepare"]
  /\ state = [h \in Handler |-> default_state]
  /\ sound \in BOOLEAN

------------------------------------------------------------------------------
\* The handler returns: its in-memory table is gone.
Return(h) ==
  /\ pc' = [pc EXCEPT ![h] = "idle"]
  /\ op' = [op EXCEPT ![h] = "prepare"]
  /\ state' = [state EXCEPT ![h] = default_state]

\* A handler has loaded the table; `st` is what it will save.
Begin(h, o, st, next) ==
  /\ pc[h] = "idle"
  /\ o \in Operation
  /\ pc' = [pc EXCEPT ![h] = next]
  /\ op' = [op EXCEPT ![h] = o]
  /\ state' = [state EXCEPT ![h] = st]
  /\ UNCHANGED disk

PrepareUpdate(h) ==
  \E st \in load_state, i \in Image : Begin(h, "prepare", Prepared(st, i), "verify")

ActivateUpdate(h) ==
  \E st \in load_state : CanActivate(st) /\ Begin(h, "activate", Activated(st), "write")

Rollback(h) == \E st \in load_state : Begin(h, "rollback", RolledBack(st), "write")

CheckHealthOnBoot(h) ==
  \E st \in load_state :
    /\ st[active_slot(st)].boot_count < BootBound
    /\ Begin(h, "check_health_on_boot", HealthChecked(st), "write")

MarkBootSuccessful(h) ==
  \E st \in load_state : Begin(h, "mark_boot_successful", BootMarked(st), "write")

\* Mutant: the running slot's directory is chosen.
TargetActive(h) == active_slot(state[h])

\* The slot prepare_update_inner stages to.
target(h) == standby_slot(state[h])

\* The digest of the source is the expected one.
Verify(h) ==
  /\ pc[h] = "verify"
  /\ pc' = [pc EXCEPT ![h] = "copy"]
  /\ UNCHANGED <<op, state, disk>>

CopyImage(h) ==
  /\ pc[h] = "copy"
  /\ imageTmp' = [imageTmp EXCEPT ![target(h)] = state[h][target(h)].sha256]
  /\ pc' = [pc EXCEPT ![h] = "install"]
  /\ UNCHANGED <<file, tmp, image, op, state>>

InstallImage(h) ==
  /\ pc[h] = "install"
  /\ imageTmp[target(h)] # Absent
  /\ image' = [image EXCEPT ![target(h)] = imageTmp[target(h)]]
  /\ imageTmp' = [imageTmp EXCEPT ![target(h)] = Absent]
  /\ pc' = [pc EXCEPT ![h] = "write"]
  /\ UNCHANGED <<file, tmp, op, state>>

\* Mutant: the file itself is opened for writing, which truncates it.
WriteInPlace(h) ==
  /\ pc[h] = "write"
  /\ file' = Absent
  /\ tmp' = state[h]
  /\ pc' = [pc EXCEPT ![h] = "publish"]
  /\ UNCHANGED <<image, imageTmp, op, state>>

\* save_state_to: write the temporary file, then rename it.
WriteTmp(h) ==
  /\ pc[h] = "write"
  /\ tmp' = state[h]
  /\ pc' = [pc EXCEPT ![h] = "publish"]
  /\ UNCHANGED <<file, image, imageTmp, op, state>>

Publish(h) ==
  /\ pc[h] = "publish"
  /\ tmp # Absent
  /\ file' = tmp
  /\ tmp' = Absent
  /\ Return(h)
  /\ UNCHANGED <<image, imageTmp>>

\* A digest mismatch, a rename whose source another handler has renamed away,
\* or any other I/O error: the handler replies with an error and leaves what
\* it has already written.
Fail(h) ==
  /\ pc[h] # "idle"
  /\ Return(h)
  /\ UNCHANGED disk

\* Power fails and the system boots again: only the disk survives.
Crash ==
  /\ pc' = [h \in Handler |-> "idle"]
  /\ op' = [h \in Handler |-> "prepare"]
  /\ state' = [h \in Handler |-> default_state]
  /\ UNCHANGED disk

Next ==
  /\ \/ \E h \in Handler :
          \/ PrepareUpdate(h) \/ ActivateUpdate(h) \/ Rollback(h)
          \/ CheckHealthOnBoot(h) \/ MarkBootSuccessful(h)
          \/ Verify(h) \/ CopyImage(h) \/ InstallImage(h)
          \/ WriteTmp(h) \/ Publish(h) \/ Fail(h)
     \/ Crash
  /\ UNCHANGED sound

Spec == Init /\ [][Next]_vars
------------------------------------------------------------------------------
(* Safety.                                                                  *)

\* Whatever handlers interleave and wherever power fails, the saved table has
\* exactly one active slot (SlotInfo statuses as every *_inner leaves them),
\* also if operations take the default table for the one they cannot read.
OneActiveIn(st) == \A s \in Slot : st[s].status = "active" <=> s = active_slot(st)

OneActive == OneActiveIn(saved_state)

\* Strengthening: tables in memory and in the temporary file have one too.
Inv ==
  /\ TypeOK
  /\ OneActive
  /\ tmp # Absent => OneActiveIn(tmp)
  /\ \A h \in Handler : OneActiveIn(state[h])

\* The load/compute/write/rename sequence of each operation, with power
\* failures, looks like one atomic replacement of the table ("atomic
\* activation/rollback").
Table == INSTANCE SlotTable WITH table <- saved_state

AtomicOperations == Table!Spec
==============================================================================
