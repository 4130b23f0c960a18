-------------------------- MODULE AtomicUpdateProofs --------------------------
(***************************************************************************)
(* Theorems about AtomicUpdate, for every set of handlers and images.      *)
(***************************************************************************)
EXTENDS SerialUpdate, TLAPS

\* A table of the right type with exactly one active slot.
GoodTable(st) == st \in SlotState /\ OneActiveIn(st)

\* Staging an image leaves exactly one active slot.
LEMMA PreparedGood ==
  ASSUME NEW st, GoodTable(st), NEW i \in Image
  PROVE  GoodTable(Prepared(st, i))
BY DEF GoodTable, Prepared, standby_slot, active_slot, OneActiveIn,
       SlotState, SlotInfo, SlotStatus, Slot

\* So do the four operations without an argument, and the default table.
LEMMA DefaultGood == GoodTable(default_state)
BY DEF GoodTable, default_state, active_slot, OneActiveIn,
       SlotState, SlotInfo, SlotStatus, Slot

LEMMA TableGood ==
  ASSUME NEW st, GoodTable(st)
  PROVE  /\ GoodTable(Activated(st))
         /\ GoodTable(RolledBack(st))
         /\ GoodTable(HealthChecked(st))
         /\ GoodTable(BootMarked(st))
<1> USE DEF GoodTable, OneActiveIn, active_slot, SlotState, SlotInfo, SlotStatus, Slot
<1>1. GoodTable(Activated(st))
  BY DEF Activated, standby_slot
<1>2. ASSUME NEW t, GoodTable(t) PROVE GoodTable(RolledBack(t))
  BY <1>2 DEF RolledBack, standby_slot
<1>3. GoodTable([st EXCEPT ![active_slot(st)].boot_count = @ + 1])
  OBVIOUS
<1>4. GoodTable(HealthChecked(st))
  <2> HIDE DEF GoodTable
  <2> QED
    BY <1>2, <1>3 DEF HealthChecked
<1>5. GoodTable(BootMarked(st))
  BY DEF BootMarked
<1> QED
  BY <1>1, <1>2, <1>4, <1>5

------------------------------------------------------------------------------
LEMMA InitInv == Init => Inv
<1> SUFFICES ASSUME Init PROVE Inv
  OBVIOUS
<1> QED
  BY DefaultGood DEF GoodTable, Init, Inv, TypeOK, OneActive, saved_state, Control, Command, Slot

\* What a handler loads is a table with one active slot, the saved one or not.
LEMMA LoadedTable ==
  ASSUME Inv, NEW st \in load_state
  PROVE  GoodTable(st)
<1>1. GoodTable(saved_state)
  BY DefaultGood DEF GoodTable, Inv, TypeOK, OneActive, saved_state
<1> QED
  BY <1>1, DefaultGood DEF load_state

\* The directory a staged image goes to is that of one of the two slots.
LEMMA TargetSlot ==
  ASSUME NEW h
  PROVE  target(h) \in Slot
BY DEF target, standby_slot, Slot

\* A handler has loaded a table and computed a good one.
LEMMA BeginInv ==
  ASSUME Inv, NEW h \in Handler, NEW o \in Command \union BootHook, NEW st,
         GoodTable(st), NEW next \in Control, Begin(h, o, st, next), sound' = sound
  PROVE  Inv'
<1>1. TypeOK'
  BY DEF GoodTable, Inv, TypeOK, Begin, disk
<1>2. OneActive' /\ (tmp # Absent => OneActiveIn(tmp))'
  BY DEF Inv, Begin, disk, OneActive, saved_state
<1>3. (\A k \in Handler : OneActiveIn(state[k]))'
  BY DEF GoodTable, Inv, TypeOK, Begin
<1> QED
  BY <1>1, <1>2, <1>3 DEF Inv

\* A handler returns without touching the disk.
LEMMA FailInv ==
  ASSUME Inv, NEW h \in Handler, Fail(h), sound' = sound
  PROVE  Inv'
<1>1. TypeOK'
  BY DefaultGood DEF GoodTable, Inv, TypeOK, Fail, Return, disk, Control, Command
<1>2. OneActive' /\ (tmp # Absent => OneActiveIn(tmp))'
  BY DEF Inv, Fail, disk, OneActive, saved_state
<1>3. (\A k \in Handler : OneActiveIn(state[k]))'
  BY DefaultGood DEF GoodTable, Inv, TypeOK, Fail, Return
<1> QED
  BY <1>1, <1>2, <1>3 DEF Inv

LEMMA NextInv == Inv /\ [Next]_vars => Inv'
<1> SUFFICES ASSUME Inv, [Next]_vars PROVE Inv'
  OBVIOUS
<1> USE DEF Control
<1>s. sound' = sound
  BY DEF Next, vars
<1>l. \A st \in load_state : GoodTable(st)
  BY LoadedTable
<1>1. ASSUME NEW h \in Handler, PrepareUpdate(h) PROVE Inv'
  BY <1>s, <1>1, <1>l, BeginInv, PreparedGood DEF PrepareUpdate, Command
<1>2. ASSUME NEW h \in Handler, ActivateUpdate(h) PROVE Inv'
  BY <1>s, <1>2, <1>l, BeginInv, TableGood DEF ActivateUpdate, Command
<1>3. ASSUME NEW h \in Handler, Rollback(h) PROVE Inv'
  BY <1>s, <1>3, <1>l, BeginInv, TableGood DEF Rollback, Command
<1>4. ASSUME NEW h \in Handler, CheckHealthOnBoot(h) PROVE Inv'
  BY <1>s, <1>4, <1>l, BeginInv, TableGood DEF CheckHealthOnBoot, BootHook
<1>5. ASSUME NEW h \in Handler, MarkBootSuccessful(h) PROVE Inv'
  BY <1>s, <1>5, <1>l, BeginInv, TableGood DEF MarkBootSuccessful, BootHook
<1>6. ASSUME NEW h \in Handler, Verify(h) PROVE Inv'
  BY <1>s, <1>6 DEF Verify, disk, Inv, TypeOK, OneActive, saved_state
<1>7. ASSUME NEW h \in Handler, CopyImage(h) PROVE Inv'
  <2>1. state[h][target(h)].sha256 \in Image \union {NoImage}
    BY TargetSlot DEF Inv, TypeOK, SlotState, SlotInfo
  <2>2. imageTmp' \in [Slot -> Image \union {NoImage, Absent}]
    BY <1>s, <1>7, <2>1, TargetSlot DEF CopyImage, Inv, TypeOK
  <2> QED
    BY <1>s, <1>7, <2>2 DEF CopyImage, Inv, TypeOK, OneActive, saved_state
<1>8. ASSUME NEW h \in Handler, InstallImage(h) PROVE Inv'
  BY <1>s, <1>8, TargetSlot DEF InstallImage, Inv, TypeOK, OneActive, saved_state
<1>9. ASSUME NEW h \in Handler, WriteTmp(h) PROVE Inv'
  BY <1>s, <1>9 DEF WriteTmp, Inv, TypeOK, OneActive, saved_state
<1>10. ASSUME NEW h \in Handler, Publish(h) PROVE Inv'
  <2>1. active_slot(tmp) \in Slot
    BY DEF active_slot, Slot
  <2>2. TypeOK'
    BY <1>s, <1>10, <2>1, DefaultGood DEF GoodTable, Publish, Return, Inv, TypeOK, Command
  <2>3. OneActive' /\ (tmp # Absent => OneActiveIn(tmp))'
    BY <1>s, <1>10, AbsentAssumption DEF Publish, Inv, OneActive, saved_state
  <2>4. (\A k \in Handler : OneActiveIn(state[k]))'
    BY <1>s, <1>10, DefaultGood DEF GoodTable, Publish, Return, Inv, TypeOK
  <2> QED
    BY <2>2, <2>3, <2>4 DEF Inv
<1>11. ASSUME NEW h \in Handler, Fail(h) PROVE Inv'
  BY <1>s, <1>11, FailInv
<1>12. CASE Crash
  BY <1>s, <1>12, DefaultGood
  DEF GoodTable, Crash, disk, Inv, TypeOK, OneActive, saved_state, Command
<1>13. CASE UNCHANGED vars
  BY <1>13 DEF vars, Inv, TypeOK, OneActive, saved_state
<1> QED
  BY <1>1, <1>2, <1>3, <1>4, <1>5, <1>6, <1>7, <1>8, <1>9, <1>10, <1>11, <1>12, <1>13 DEF Next

LEMMA InvHolds == Spec => []Inv
BY InitInv, NextInv, PTL DEF Spec

\* Tables on disk, in memory and in the temporary file are such as the *_inner
\* functions make, and images lie in the directories of the two slots.
THEOREM TypeCorrect == Spec => []TypeOK
<1>1. Inv => TypeOK
  BY DEF Inv
<1> QED
  BY InvHolds, <1>1, PTL

\* However many handlers interleave and wherever power fails, the saved table
\* has exactly one active slot.
THEOREM ExactlyOneActive == Spec => []OneActive
<1>1. Inv => OneActive
  BY DEF Inv
<1> QED
  BY InvHolds, <1>1, PTL
------------------------------------------------------------------------------
(* With one handler at a time the sequence load, compute, write, rename      *)
(* implements the atomic table.                                              *)

\* t is what one operation makes of s.
TableStep(s, t) ==
  \/ \E i \in Image : t = Prepared(s, i)
  \/ CanActivate(s) /\ t = Activated(s)
  \/ t = RolledBack(s)
  \/ t = HealthChecked(s)
  \/ t = BootMarked(s)

\* The table has not been replaced since a busy handler loaded it, or took the
\* default for it; a handler that copies or installs an image has prepared
\* that image's table; and the temporary file a handler is about to rename is
\* its own.
SerialInv ==
  \A h \in Handler :
    /\ pc[h] # "idle" => \E st \in load_state : TableStep(st, state[h])
    /\ pc[h] \in {"verify", "copy", "install"}
         => \E st \in load_state, i \in Image : state[h] = Prepared(st, i)
    /\ pc[h] = "publish" => tmp = state[h]

LEMMA InitSerial == Init => SerialInv /\ OneBusy
BY DEF Init, SerialInv, OneBusy

LEMMA BeginSerial ==
  ASSUME OneBusy', TypeOK, NEW h \in Handler, NEW o, NEW from \in load_state, NEW st,
         TableStep(from, st), NEW next \in {"verify", "write"},
         next = "verify" => \E i \in Image : st = Prepared(from, i),
         Begin(h, o, st, next), sound' = sound
  PROVE  SerialInv'
<1>1. load_state' = load_state
  BY DEF Begin, disk, load_state, saved_state
<1>2. pc'[h] = next /\ state'[h] = st
  BY DEF TypeOK, Begin
<1>3. \A g \in Handler : g # h => pc'[g] = "idle"
  BY <1>2 DEF OneBusy
<1> QED
  BY <1>1, <1>2, <1>3 DEF SerialInv

LEMMA NextSerial ==
  ASSUME OneBusy, OneBusy', TypeOK, SerialInv, [Next]_vars
  PROVE  SerialInv'
<1>s. sound' = sound
  BY DEF Next, vars
<1>1. ASSUME NEW h \in Handler,
             PrepareUpdate(h) \/ ActivateUpdate(h) \/ Rollback(h)
               \/ CheckHealthOnBoot(h) \/ MarkBootSuccessful(h)
      PROVE  SerialInv'
  BY <1>s, <1>1, BeginSerial DEF TableStep, PrepareUpdate, ActivateUpdate, Rollback,
                           CheckHealthOnBoot, MarkBootSuccessful
<1>2. ASSUME NEW h \in Handler, Verify(h) \/ CopyImage(h) \/ InstallImage(h) PROVE SerialInv'
  <2>1. load_state' = load_state /\ state' = state
    BY <1>s, <1>2 DEF Verify, CopyImage, InstallImage, disk, load_state, saved_state
  <2> QED
    BY <1>2, <2>1 DEF OneBusy, TypeOK, SerialInv, Verify, CopyImage, InstallImage
<1>3. ASSUME NEW h \in Handler, WriteTmp(h) PROVE SerialInv'
  <2>1. load_state' = load_state
    BY <1>s, <1>3 DEF WriteTmp, load_state, saved_state
  <2> QED
    BY <1>3, <2>1 DEF OneBusy, TypeOK, SerialInv, WriteTmp
\* A handler returns: the others were idle, and so are all.
<1>4. ASSUME NEW h \in Handler, Publish(h) \/ Fail(h) PROVE SerialInv'
  <2>1. \A g \in Handler : pc'[g] = "idle"
    BY <1>4 DEF OneBusy, TypeOK, Publish, Fail, Return
  <2> QED
    BY <2>1 DEF SerialInv
<1>5. CASE Crash
  BY <1>5 DEF SerialInv, Crash
<1>6. CASE UNCHANGED vars
  <2>1. load_state' = load_state
    BY <1>s, <1>6 DEF vars, load_state, saved_state
  <2> QED
    BY <1>6, <2>1 DEF SerialInv, vars
<1> QED
  BY <1>1, <1>2, <1>3, <1>4, <1>5, <1>6 DEF Next

\* The operators of the abstract table are those of the handlers.
LEMMA SameOperators ==
  ASSUME NEW st, NEW i
  PROVE  /\ Prepared(st, i) = Table!Prepared(st, i)
         /\ CanActivate(st) = Table!CanActivate(st)
         /\ Activated(st) = Table!Activated(st)
         /\ RolledBack(st) = Table!RolledBack(st)
         /\ HealthChecked(st) = Table!HealthChecked(st)
         /\ BootMarked(st) = Table!BootMarked(st)
BY Zenon DEF Prepared, CanActivate, Activated, RolledBack, HealthChecked, BootMarked,
             standby_slot, active_slot, Slot, MAX_BOOT_COUNT,
             Table!Prepared, Table!CanActivate, Table!Activated, Table!RolledBack,
             Table!HealthChecked, Table!BootMarked, Table!standby_slot,
             Table!active_slot, Table!Slot, Table!MAX_BOOT_COUNT

\* Every step is a step of the atomic table or leaves it alone: only the
\* rename changes it.
LEMMA StepImplements ==
  ASSUME SerialInv, [Next]_vars
  PROVE  [Table!Next]_<<saved_state, sound>>
<1>s. sound' = sound
  BY DEF Next, vars
<1>1. ASSUME NEW h \in Handler, Publish(h) PROVE Table!Next
  <2>1. PICK st \in load_state : TableStep(st, tmp)
    BY <1>1 DEF SerialInv, Publish
  <2>2. saved_state' = tmp
    BY <1>1 DEF Publish, saved_state
  <2>3. TableStep(st, saved_state')
    BY <2>1, <2>2
  <2>4. \/ Table!Prepare(st) \/ Table!Activate(st) \/ Table!Rollback(st)
        \/ Table!CheckHealth(st) \/ Table!MarkBoot(st)
    BY <2>3, SameOperators, Zenon
       DEF TableStep, Table!Prepare, Table!Activate, Table!Rollback,
           Table!CheckHealth, Table!MarkBoot
  <2>5. st \in {saved_state} \union IF sound THEN {} ELSE {Table!default_state}
    BY DEF load_state, default_state, Table!default_state, Slot, Table!Slot
  <2> QED
    BY <1>s, <2>4, <2>5, Zenon DEF Table!Next
<1>2. CASE file' = file
  BY <1>s, <1>2 DEF saved_state
<1>3. ASSUME file' # file PROVE \E h \in Handler : Publish(h)
  BY <1>3 DEF Next, vars, disk, Begin, PrepareUpdate, ActivateUpdate, Rollback,
              CheckHealthOnBoot, MarkBootSuccessful, Verify, CopyImage, InstallImage,
              WriteTmp, Fail, Crash
<1> QED
  BY <1>1, <1>2, <1>3

\* One handler, or none.
OneHandler == \A g, h \in Handler : g = h

\* With a single handler each operation is one replacement of the table, power
\* failures and failed reads included: what is saved is what the operation makes
\* of the saved table or, where it could not be read, of the default one.  With
\* two, TLC refutes AtomicOperations.
THEOREM SerialRefinement == OneHandler /\ Spec => AtomicOperations
<1> SUFFICES ASSUME OneHandler PROVE Spec => Table!Spec
  BY DEF AtomicOperations
<1>1. Init => Table!Init
  BY DEF Init, saved_state, Table!Init, default_state, Table!default_state,
         Slot, Table!Slot
<1>2. TypeOK /\ SerialInv /\ [Next]_vars => SerialInv'
  BY NextSerial DEF OneHandler, OneBusy
<1>3. SerialInv /\ [Next]_vars => [Table!Next]_<<saved_state, sound>>
  BY StepImplements
<1> QED
  BY InitSerial, TypeCorrect, <1>1, <1>2, <1>3, PTL DEF Spec, Table!Spec
------------------------------------------------------------------------------
(* Any number of handlers, in behaviours in which they wait for each other   *)
(* and in others: the specification SerialSpec.                              *)

WhenSerial == serial => OneBusy /\ SerialInv

LEMMA SerialIsUpdate == SerialSpec => Spec
<1>1. SerialInit => Init
  BY DEF SerialInit
<1>2. [SerialNext]_<<vars, serial>> => [Next]_vars
  BY DEF SerialNext, vars
<1> QED
  BY <1>1, <1>2, PTL DEF SerialSpec, Spec

LEMMA SerialHolds == SerialSpec => []WhenSerial
<1>1. SerialInit => WhenSerial
  BY InitSerial DEF SerialInit, WhenSerial
<1>2. TypeOK /\ WhenSerial /\ [SerialNext]_<<vars, serial>> => WhenSerial'
  <2> SUFFICES ASSUME TypeOK, WhenSerial, [SerialNext]_<<vars, serial>>, serial'
               PROVE  OneBusy' /\ SerialInv'
    BY DEF WhenSerial
  <2>1. serial /\ [Next]_vars
    BY DEF SerialNext, vars
  <2>2. OneBusy'
    BY <2>1 DEF SerialNext, vars, WhenSerial, OneBusy
  <2> QED
    BY <2>1, <2>2, NextSerial DEF WhenSerial
<1>3. Spec => []TypeOK
  BY TypeCorrect
<1> QED
  BY SerialIsUpdate, <1>1, <1>2, <1>3, PTL DEF SerialSpec

LEMMA SameSerialOperators ==
  ASSUME NEW st, NEW i
  PROVE  /\ Prepared(st, i) = SerialTable!Prepared(st, i)
         /\ CanActivate(st) = SerialTable!CanActivate(st)
         /\ Activated(st) = SerialTable!Activated(st)
         /\ RolledBack(st) = SerialTable!RolledBack(st)
         /\ HealthChecked(st) = SerialTable!HealthChecked(st)
         /\ BootMarked(st) = SerialTable!BootMarked(st)
BY Zenon DEF Prepared, CanActivate, Activated, RolledBack, HealthChecked, BootMarked,
             standby_slot, active_slot, Slot, MAX_BOOT_COUNT,
             SerialTable!Prepared, SerialTable!CanActivate, SerialTable!Activated,
             SerialTable!RolledBack, SerialTable!HealthChecked, SerialTable!BootMarked,
             SerialTable!standby_slot, SerialTable!active_slot, SerialTable!Slot,
             SerialTable!MAX_BOOT_COUNT

\* The table the handlers see, which is not looked at when they overlap.
seen_state == IF serial THEN saved_state ELSE default_state

LEMMA SerialStepImplements ==
  ASSUME WhenSerial, [SerialNext]_<<vars, serial>>
  PROVE  [SerialTable!Next]_<<seen_state, sound>>
<1>s. sound' = sound
  BY DEF SerialNext, Next, vars
<1>1. CASE ~serial \/ UNCHANGED <<vars, serial>>
  <2>1. saved_state' = saved_state \/ ~serial
    BY <1>1 DEF saved_state, vars
  <2> QED
    BY <1>s, <1>1, <2>1 DEF seen_state, SerialNext, vars
<1>2. CASE serial /\ SerialNext
  <2>1. serial' = serial /\ [Table!Next]_<<saved_state, sound>>
    BY <1>2, StepImplements DEF SerialNext, WhenSerial
  <2>2. seen_state = saved_state /\ seen_state' = saved_state'
    BY <1>2, <2>1 DEF seen_state
  <2>3. CASE saved_state' = saved_state
    BY <1>s, <2>2, <2>3
  <2>4. CASE Table!Next
    <3>1. PICK st \in {saved_state} \union IF sound THEN {} ELSE {Table!default_state} :
            \/ Table!Prepare(st) \/ Table!Activate(st) \/ Table!Rollback(st)
            \/ Table!CheckHealth(st) \/ Table!MarkBoot(st)
      BY <2>4, Zenon DEF Table!Next
    <3>2. TableStep(st, seen_state')
      BY <3>1, <2>2, SameOperators, Zenon
         DEF TableStep, Table!Prepare, Table!Activate, Table!Rollback,
             Table!CheckHealth, Table!MarkBoot
    <3>3. \/ SerialTable!Prepare(st) \/ SerialTable!Activate(st) \/ SerialTable!Rollback(st)
          \/ SerialTable!CheckHealth(st) \/ SerialTable!MarkBoot(st)
      BY <3>2, SameSerialOperators, Zenon
         DEF TableStep, seen_state, SerialTable!Prepare, SerialTable!Activate,
             SerialTable!Rollback, SerialTable!CheckHealth, SerialTable!MarkBoot
    <3>4. st \in {seen_state} \union IF sound THEN {} ELSE {SerialTable!default_state}
      BY <3>1, <2>2 DEF Table!default_state, SerialTable!default_state, Table!Slot,
                        SerialTable!Slot
    <3> QED
      BY <1>s, <3>3, <3>4, Zenon DEF SerialTable!Next, seen_state
  <2> QED
    BY <2>1, <2>3, <2>4
<1> QED
  BY <1>1, <1>2

\* Whenever commands do not overlap, however many threads run them, the four
\* steps of an operation are one replacement of the table: power failures and
\* I/O errors leave the old table or the new one, and a failed read makes it
\* the one the operation makes of the default table.
THEOREM SerialUpdatesAreAtomic == SerialSpec => AtomicWhenSerial
<1>1. SerialInit => SerialTable!Init
  BY DEF SerialInit, Init, saved_state, SerialTable!Init, default_state,
         SerialTable!default_state, Slot, SerialTable!Slot
<1>2. WhenSerial /\ [SerialNext]_<<vars, serial>> => [SerialTable!Next]_<<seen_state, sound>>
  BY SerialStepImplements
<1> QED
  BY SerialHolds, <1>1, <1>2, PTL DEF SerialSpec, AtomicWhenSerial, SerialTable!Spec, seen_state

\* Staging an image does not change which slot is active.
LEMMA PreparedKeepsActive ==
  ASSUME NEW st, GoodTable(st), NEW i \in Image
  PROVE  standby_slot(Prepared(st, i)) # active_slot(st)
BY DEF GoodTable, Prepared, standby_slot, active_slot, SlotState, SlotInfo, Slot

\* Whenever commands do not overlap, prepare_update replaces the image of the
\* standby slot; that of the active one only if B is active and the table could
\* not be read.
THEOREM ActiveImageStays == SerialSpec => SerialLeavesActive
<1>1. ASSUME Inv, WhenSerial, [SerialNext]_<<vars, serial>>, ~(UNCHANGED vars), serial,
             NEW s \in Slot, image'[s] # image[s], s = active_slot(saved_state)
      PROVE  s = "B" /\ ~sound
  <2>1. Next
    BY <1>1 DEF SerialNext, vars
  <2>2. PICK h \in Handler : InstallImage(h)
    BY <1>1, <2>1 DEF Next, disk, Begin, PrepareUpdate, ActivateUpdate, Rollback,
           CheckHealthOnBoot, MarkBootSuccessful, Verify, CopyImage, WriteTmp, Publish,
           Fail, Crash
  <2>3. s = standby_slot(state[h])
    BY <1>1, <2>2 DEF InstallImage, target, Inv, TypeOK
  <2>4. PICK st \in load_state, i \in Image : state[h] = Prepared(st, i)
    BY <1>1, <2>2 DEF InstallImage, WhenSerial, SerialInv
  <2>5. standby_slot(Prepared(st, i)) # active_slot(st)
    BY <1>1, LoadedTable, PreparedKeepsActive
\* The table it chose the slot from is not the saved one: it is the default.
  <2>6. st = default_state /\ ~sound
    BY <1>1, <2>3, <2>4, <2>5 DEF load_state
  <2>7. active_slot(default_state) = "A"
    BY DEF active_slot, default_state, Slot
  <2> QED
    BY <1>1, <2>3, <2>4, <2>5, <2>6, <2>7 DEF Slot
<1>2. Inv /\ WhenSerial /\ [SerialNext]_<<vars, serial>>
        => [serial => \A s \in Slot : image'[s] # image[s] /\ s = active_slot(saved_state)
                                        => s = "B" /\ ~sound]_vars
  BY <1>1
<1> QED
  BY SerialIsUpdate, InvHolds, SerialHolds, <1>2, PTL DEF SerialSpec, SerialLeavesActive
==============================================================================
