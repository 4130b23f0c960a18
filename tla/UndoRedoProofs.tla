---------------------------- MODULE UndoRedoProofs ----------------------------
(***************************************************************************)
(* Proofs about UndoRedo, for any number of handlers, every bound of the   *)
(* stacks and every choice of settings.  Only push_undo compares a length  *)
(* with MAX_UNDO; that the stacks are bounded nevertheless rests on undo   *)
(* and redo moving an entry from one to the other.                         *)
(***************************************************************************)
EXTENDS UndoRedo, SequenceTheorems, TLAPS

(* What a setting may have for a value once it has been clamped, and what  *)
(* is recorded: only such values.                                          *)
Value(s)  == IF s = "workspace" THEN 0 .. WorkspaceCount - 1 ELSE Argument(s)
Recorded  == UNION {{[setting |-> s, value |-> v] : v \in Value(s)} : s \in Setting}
Entry     == [command : Recorded, undo : Recorded]

StacksInv ==
    /\ undo_stack \in Seq(Entry) /\ redo_stack \in Seq(Entry)
    /\ Len(undo_stack) + Len(redo_stack) <= MAX_UNDO

Values == UNION {Value(s) : s \in Setting}

SettingsInv ==
    /\ settings \in [Setting -> Values]
    /\ \A s \in Setting : settings[s] \in Value(s)

Doings == [pc   : {"idle", "lookup", "read", "apply", "record"},
           from : {"user", "undo", "redo"},
           cmd  : Command \union {None},
           old  : Values \union {None},
           told : Command \union {None},
           seen : [Setting -> Values] \union {None}]

HandlerOK(r) ==
    /\ r \in Doings
    /\ r.pc \in {"read", "apply", "record"} => r.cmd \in Command
    /\ r.pc \in {"apply", "record"} => r.old \in Value(r.cmd.setting)

HandlersInv ==
    /\ handler \in [Handler -> Doings]
    /\ \A h \in Handler : HandlerOK(handler[h])

IInv == StacksInv /\ SettingsInv /\ HandlersInv

(* A thread that is still alone is the only busy one, and only it has      *)
(* changed the settings since it began, and only the one of its command.   *)
SeenInv ==
    \A h \in Handler : LET r == handler[h] IN Alone(h) =>
        /\ Busy = {h}
        /\ r.pc \in {"lookup", "read", "apply"} => settings = r.seen
        /\ r.pc \in {"apply", "record"} => r.old = r.seen[r.cmd.setting]
        /\ r.pc = "record" =>
              /\ settings = [r.seen EXCEPT ![r.cmd.setting] = Clamped(r.cmd.setting, r.cmd.value)]
              /\ r.cmd.setting = "theme" => settings["theme"] # r.old

(* What was announced is on top of the stack it was moved to, and then it  *)
(* is the thread's command.                                                *)
ToldInv ==
    \A h \in Handler : LET r == handler[h] IN r.told # None =>
        /\ Alone(h)
        /\ r.pc = "lookup" =>
              IF r.from = "undo" THEN redo_stack # << >> /\ Last(redo_stack).undo = r.told
                                 ELSE undo_stack # << >> /\ Last(undo_stack).command = r.told
        /\ r.pc \in {"read", "apply", "record"} => r.cmd = r.told

(* The command would change something: only set_active refuses to.         *)
Effective(c) == c.setting = "theme" => settings["theme"] # c.value

(* The entry on top undoes the last command, and nothing can be redone ... *)
OnTop ==
    /\ undo_stack # << >> /\ redo_stack = << >>
    /\ Applied(Last(undo_stack).undo) = before
    /\ Effective(Last(undo_stack).undo)

(* ... or a thread is about to undo it ...                                 *)
Undoing(h) ==
    /\ handler[h].from = "undo" /\ handler[h].pc \in {"lookup", "read", "apply"}
    /\ redo_stack # << >>
    /\ Alone(h) => /\ handler[h].pc = "lookup" => Effective(Last(redo_stack).undo)
                   /\ handler[h].pc # "lookup" => Effective(handler[h].cmd)

(* ... or one is about to record another command.                          *)
BeforeInv ==
    before # None =>
        OnTop \/ \E h \in Handler : Undoing(h) \/ handler[h].pc = "record"

HistoryInv == SeenInv /\ ToldInv /\ BeforeInv

-----------------------------------------------------------------------------
(* Clamping yields a recorded value, and a recorded value is an argument.  *)
LEMMA ValueIsArgument == \A s \in Setting : Value(s) \subseteq Argument(s)
  BY SettingAssumption, CountAssumption DEF Value, Argument, AllSettings

LEMMA RecordedIsCommand == Recorded \subseteq Command
  BY ValueIsArgument DEF Recorded, Command

LEMMA CommandParts ==
  ASSUME NEW c \in Command
  PROVE  c.setting \in Setting /\ c.value \in Argument(c.setting)
  BY DEF Command

LEMMA ClampedIsValue ==
  ASSUME NEW s \in Setting, NEW v \in Argument(s)
  PROVE  Clamped(s, v) \in Value(s)
<1>1. CASE s = "workspace"
  BY <1>1, CountAssumption DEF Clamped, Value, Argument
<1>2. CASE s # "workspace"
  BY <1>2 DEF Clamped, Value
<1> QED BY <1>1, <1>2

LEMMA CapturedIsEntry ==
  ASSUME NEW s \in Setting, NEW v \in Argument(s), NEW old \in Value(s)
  PROVE  Captured(s, old, v) \in Entry
<1>1. [setting |-> s, value |-> old] \in Recorded
  BY DEF Recorded
<1>2. (IF s = "mute" THEN 1 - old ELSE Clamped(s, v)) \in Value(s)
  <2>1. CASE s = "mute"
    <3>1. Value(s) = {0, 1}
      BY <2>1 DEF Value, Argument
    <3> QED BY <2>1, <3>1
  <2>2. CASE s # "mute"
    BY <2>2, ClampedIsValue
  <2> QED BY <2>1, <2>2
<1>3. [setting |-> s, value |-> IF s = "mute" THEN 1 - old ELSE Clamped(s, v)] \in Recorded
  BY <1>2 DEF Recorded
<1> QED BY <1>1, <1>3 DEF Captured, Entry

(* Taking the last entry off a stack.                                      *)
LEMMA FrontAndLast ==
  ASSUME NEW S, NEW s \in Seq(S), s # << >>
  PROVE  Front(s) \in Seq(S) /\ Len(Front(s)) = Len(s) - 1 /\ Last(s) \in S /\ Len(s) > 0
<1>1. Len(s) \in Nat /\ Len(s) > 0 /\ \A i \in 1 .. Len(s) : s[i] \in S
  BY EmptySeq, LenProperties, ElementOfSeq
<1> DEFINE n == Len(s)
<1>2. Front(s) \in Seq(S) /\ Len(Front(s)) = IF 1 <= n - 1 THEN n - 1 - 1 + 1 ELSE 0
  BY <1>1, SubSeqProperties DEF Front
<1>3. n \in 1 .. n /\ n \in Nat
  BY <1>1
<1> HIDE DEF n
<1>4. Len(Front(s)) = n - 1 /\ n > 0
  BY <1>2, <1>3
<1> QED BY <1>1, <1>2, <1>3, <1>4 DEF Last, n

-----------------------------------------------------------------------------
LEMMA InitInv == Init => IInv
<1> SUFFICES ASSUME Init PROVE IInv
  OBVIOUS
<1>1. StacksInv
  <2>1. << >> \in Seq(Entry) /\ Len(<< >>) = 0
    BY EmptySeq
  <2> QED BY <2>1, MaxUndoAssumption DEF Init, StacksInv
<1>2. SettingsInv
  BY SettingAssumption, CountAssumption, VolumeAssumption
     DEF Init, SettingsInv, Values, Value, Argument, AllSettings
<1>3. HandlersInv
  BY DEF Init, HandlersInv, HandlerOK, Idle, Doings
<1> QED BY <1>1, <1>2, <1>3 DEF IInv

(* Beginning a command leaves the other threads where they are.            *)
LEMMA StartKeeps ==
  ASSUME HandlersInv, SettingsInv, NEW h \in Handler, NEW rec, HandlerOK(rec), Start(h, rec)
  PROVE  HandlersInv'
<1>1. ASSUME NEW r, HandlerOK(r)
      PROVE  HandlerOK(Disturbed(r)) /\ HandlerOK([r EXCEPT !.seen = settings])
  BY <1>1 DEF HandlerOK, Doings, Disturbed, SettingsInv
<1>2. \A r : HandlerOK(r) => r \in Doings
  BY DEF HandlerOK
<1> QED BY <1>1, <1>2 DEF Start, HandlersInv

LEMMA OneChanges ==
  ASSUME HandlersInv, NEW h \in Handler, NEW rec, HandlerOK(rec),
         handler' = [handler EXCEPT ![h] = rec]
  PROVE  HandlersInv'
  BY DEF HandlersInv, HandlerOK

(* An entry goes from one stack to the other, or from neither.             *)
LEMMA MoveKeeps ==
  ASSUME NEW from \in Seq(Entry), NEW to \in Seq(Entry), from # << >>
  PROVE  /\ Front(from) \in Seq(Entry) /\ Append(to, Last(from)) \in Seq(Entry)
         /\ Len(Front(from)) + Len(Append(to, Last(from))) = Len(from) + Len(to)
<1>1. /\ Front(from) \in Seq(Entry) /\ Last(from) \in Entry
      /\ Len(Front(from)) = Len(from) - 1 /\ Len(from) \in Nat /\ Len(to) \in Nat
  BY FrontAndLast, LenProperties
<1>2. Append(to, Last(from)) \in Seq(Entry) /\ Len(Append(to, Last(from))) = Len(to) + 1
  BY <1>1, AppendProperties
<1> QED BY <1>1, <1>2

(* The oldest entry makes room, so one more is within the bound.           *)
LEMMA PushKeeps ==
  ASSUME NEW s \in Seq(Entry), Len(s) <= MAX_UNDO, NEW e \in Entry
  PROVE  LET kept == IF Len(s) >= MAX_UNDO THEN Tail(s) ELSE s
         IN  Append(kept, e) \in Seq(Entry) /\ Len(Append(kept, e)) <= MAX_UNDO
<1> DEFINE kept == IF Len(s) >= MAX_UNDO THEN Tail(s) ELSE s
<1>1. kept \in Seq(Entry) /\ Len(kept) < MAX_UNDO /\ Len(kept) \in Nat
  <2>1. CASE Len(s) >= MAX_UNDO
    <3>1. s # << >>
      BY <2>1, MaxUndoAssumption
    <3>2. Tail(s) \in Seq(Entry) /\ Len(Tail(s)) = Len(s) - 1 /\ Len(s) \in Nat
      BY <3>1, HeadTailProperties, LenProperties
    <3>3. Len(Tail(s)) \in Nat
      BY <3>2, LenProperties
    <3> QED BY <2>1, <3>2, <3>3, MaxUndoAssumption
  <2>2. CASE ~(Len(s) >= MAX_UNDO)
    BY <2>2, LenProperties, MaxUndoAssumption
  <2> QED BY <2>1, <2>2
<1> HIDE DEF kept
<1>2. Append(kept, e) \in Seq(Entry) /\ Len(Append(kept, e)) = Len(kept) + 1
  BY <1>1, AppendProperties
<1>3. Append(kept, e) \in Seq(Entry) /\ Len(Append(kept, e)) <= MAX_UNDO
  BY <1>1, <1>2, MaxUndoAssumption
<1> QED BY <1>3 DEF kept

-----------------------------------------------------------------------------
LEMMA IssueKeeps ==
  ASSUME IInv, NEW h \in Handler, NEW c \in Command, Issue(h, c)
  PROVE  IInv'
<1>1. HandlerOK([Idle EXCEPT !.pc = "read", !.cmd = c])
  BY DEF HandlerOK, Doings, Idle
<1>2. HandlersInv'
  BY <1>1, StartKeeps DEF Issue, IInv
<1> QED BY <1>2 DEF Issue, IInv, StacksInv, SettingsInv

LEMMA UndoKeeps ==
  ASSUME IInv, NEW h \in Handler, Undo(h)
  PROVE  IInv'
<1>1. CASE undo_stack = << >>
  <2>1. HandlerOK([Idle EXCEPT !.pc = "lookup", !.from = "undo", !.told = None])
    BY DEF HandlerOK, Doings, Idle
  <2>2. HandlersInv'
    BY <1>1, <2>1, StartKeeps DEF Undo, IInv
  <2> QED BY <1>1, <2>2 DEF Undo, IInv, StacksInv, SettingsInv
<1>2. CASE undo_stack # << >>
  <2>1. Last(undo_stack) \in Entry
    BY <1>2, FrontAndLast DEF IInv, StacksInv
  <2>2. HandlerOK([Idle EXCEPT !.pc = "lookup", !.from = "undo",
                               !.told = Last(undo_stack).undo])
    BY <2>1, RecordedIsCommand DEF HandlerOK, Doings, Idle, Entry
  <2>3. HandlersInv'
    BY <1>2, <2>2, StartKeeps DEF Undo, IInv
  <2>4. StacksInv'
    BY <1>2, MoveKeeps DEF Undo, IInv, StacksInv
  <2> QED BY <2>3, <2>4 DEF Undo, IInv, SettingsInv
<1> QED BY <1>1, <1>2

LEMMA RedoKeeps ==
  ASSUME IInv, NEW h \in Handler, Redo(h)
  PROVE  IInv'
<1>1. CASE redo_stack = << >>
  <2>1. HandlerOK([Idle EXCEPT !.pc = "lookup", !.from = "redo", !.told = None])
    BY DEF HandlerOK, Doings, Idle
  <2>2. HandlersInv'
    BY <1>1, <2>1, StartKeeps DEF Redo, IInv
  <2> QED BY <1>1, <2>2 DEF Redo, IInv, StacksInv, SettingsInv
<1>2. CASE redo_stack # << >>
  <2>1. Last(redo_stack) \in Entry
    BY <1>2, FrontAndLast DEF IInv, StacksInv
  <2>2. HandlerOK([Idle EXCEPT !.pc = "lookup", !.from = "redo",
                               !.told = Last(redo_stack).command])
    BY <2>1, RecordedIsCommand DEF HandlerOK, Doings, Idle, Entry
  <2>3. HandlersInv'
    BY <1>2, <2>2, StartKeeps DEF Redo, IInv
  <2>4. Len(undo_stack') + Len(redo_stack') = Len(redo_stack) + Len(undo_stack)
        /\ undo_stack' \in Seq(Entry) /\ redo_stack' \in Seq(Entry)
    <3>1. /\ redo_stack' = Front(redo_stack)
          /\ undo_stack' = Append(undo_stack, Last(redo_stack))
      BY <1>2 DEF Redo
    <3>2. /\ Front(redo_stack) \in Seq(Entry)
          /\ Append(undo_stack, Last(redo_stack)) \in Seq(Entry)
          /\ Len(Front(redo_stack)) + Len(Append(undo_stack, Last(redo_stack)))
               = Len(redo_stack) + Len(undo_stack)
      BY <1>2, MoveKeeps DEF IInv, StacksInv
    <3>3. Len(undo_stack') \in Nat /\ Len(redo_stack') \in Nat
      BY <3>1, <3>2, LenProperties
    <3> QED BY <3>1, <3>2, <3>3
  <2>5. StacksInv'
    BY <2>4, LenProperties DEF IInv, StacksInv
  <2> QED BY <2>3, <2>5 DEF Redo, IInv, SettingsInv
<1> QED BY <1>1, <1>2

LEMMA LookupKeeps ==
  ASSUME IInv, NEW h \in Handler, Lookup(h)
  PROVE  IInv'
<1> DEFINE stack == IF handler[h].from = "undo" THEN redo_stack ELSE undo_stack
<1>1. CASE stack = << >>
  <2>1. handler' = [handler EXCEPT ![h] = Idle]
    BY <1>1 DEF Lookup
  <2>2. HandlerOK(Idle)
    BY DEF HandlerOK, Doings, Idle
  <2>3. Idle \in Doings
    BY <2>2 DEF HandlerOK
  <2> QED BY <2>1, <2>2, <2>3 DEF Lookup, IInv, StacksInv, SettingsInv, HandlersInv
<1>2. CASE stack # << >>
  <2>1. Last(stack) \in Entry
    BY <1>2, FrontAndLast DEF IInv, StacksInv
  <2> DEFINE c == IF handler[h].from = "undo" THEN Last(stack).undo ELSE Last(stack).command
             rec == [handler[h] EXCEPT !.pc = "read", !.cmd = c]
  <2>2. handler' = [handler EXCEPT ![h] = rec]
    BY <1>2 DEF Lookup, IInv, HandlersInv
  <2>3. c \in Command
    BY <2>1, RecordedIsCommand DEF Entry
  <2> HIDE DEF c
  <2>4. HandlerOK(rec)
    BY <2>3 DEF IInv, HandlersInv, HandlerOK, Doings
  <2> HIDE DEF rec
  <2>5. HandlersInv'
    BY <2>2, <2>4, OneChanges DEF IInv
  <2> QED BY <2>5 DEF Lookup, IInv, StacksInv, SettingsInv
<1> QED BY <1>1, <1>2

LEMMA ReadOldKeeps ==
  ASSUME IInv, NEW h \in Handler, ReadOld(h)
  PROVE  IInv'
<1>1. handler[h].cmd.setting \in Setting
  BY CommandParts DEF ReadOld, IInv, HandlersInv, HandlerOK
<1>2. settings[handler[h].cmd.setting] \in Value(handler[h].cmd.setting)
  BY <1>1 DEF IInv, SettingsInv
<1>3. settings[handler[h].cmd.setting] \in Values
  BY <1>1, <1>2 DEF Values
<1> DEFINE old == settings[handler[h].cmd.setting]
           rec == [handler[h] EXCEPT !.pc = "apply", !.old = old]
<1>4. handler' = [handler EXCEPT ![h] = rec]
  BY DEF ReadOld, IInv, HandlersInv
<1>5. old \in Values /\ old \in Value(handler[h].cmd.setting)
  BY <1>2, <1>3
<1> HIDE DEF old
<1>6. HandlerOK(rec)
  BY <1>5 DEF ReadOld, IInv, HandlersInv, HandlerOK, Doings
<1> HIDE DEF rec
<1>7. HandlersInv'
  BY <1>4, <1>6, OneChanges DEF IInv
<1> QED BY <1>7 DEF ReadOld, IInv, StacksInv, SettingsInv

LEMMA ApplyKeeps ==
  ASSUME IInv, NEW h \in Handler, Apply(h)
  PROVE  IInv'
<1> DEFINE s == handler[h].cmd.setting
           v == Clamped(s, handler[h].cmd.value)
<1>1. s \in Setting /\ v \in Value(s) /\ v \in Values
  BY CommandParts, ClampedIsValue DEF Apply, IInv, HandlersInv, HandlerOK, Values
<1>2. SettingsInv'
  <2>1. settings' = [settings EXCEPT ![s] = v]
    BY DEF Apply
  <2> HIDE DEF s, v
  <2> QED BY <1>1, <2>1 DEF IInv, SettingsInv
<1>3. \/ handler' = [handler EXCEPT ![h] = Idle]
      \/ handler' = [handler EXCEPT ![h].pc = "record"]
  BY DEF Apply, IInv, HandlersInv, Doings
<1>4. HandlersInv'
  BY <1>3 DEF Apply, IInv, HandlersInv, HandlerOK, Doings, Idle
<1> QED BY <1>2, <1>4 DEF Apply, IInv, StacksInv

LEMMA PushUndoKeeps ==
  ASSUME IInv, NEW h \in Handler, PushUndo(h)
  PROVE  IInv'
<1> DEFINE c == handler[h].cmd
           entry == Captured(c.setting, handler[h].old, c.value)
           kept == IF Len(undo_stack) >= MAX_UNDO THEN Tail(undo_stack) ELSE undo_stack
<1>1. entry \in Entry
  BY CommandParts, CapturedIsEntry DEF PushUndo, IInv, HandlersInv, HandlerOK
<1>2. undo_stack \in Seq(Entry) /\ Len(undo_stack) <= MAX_UNDO
  BY LenProperties, MaxUndoAssumption DEF IInv, StacksInv
<1>3. undo_stack' = Append(kept, entry) /\ redo_stack' = << >>
  BY DEF PushUndo
<1>4. Append(kept, entry) \in Seq(Entry) /\ Len(Append(kept, entry)) <= MAX_UNDO
  BY <1>1, <1>2, PushKeeps
<1> HIDE DEF kept, entry
<1>5. StacksInv'
  <2>1. << >> \in Seq(Entry) /\ Len(<< >>) = 0
    BY EmptySeq
  <2>2. Len(Append(kept, entry)) \in Nat
    BY <1>4, LenProperties
  <2> QED BY <1>3, <1>4, <2>1, <2>2 DEF StacksInv
<1>6. HandlersInv'
  BY DEF PushUndo, IInv, HandlersInv, HandlerOK, Doings, Idle
<1> QED BY <1>5, <1>6 DEF PushUndo, IInv, SettingsInv

(* Applications and keys disturb the commands under way, no more.          *)
LEMMA DisturbKeeps ==
  ASSUME HandlersInv, handler' = [g \in Handler |-> Disturbed(handler[g])]
  PROVE  HandlersInv'
<1>1. ASSUME NEW r, HandlerOK(r)
      PROVE  HandlerOK(Disturbed(r)) /\ Disturbed(r) \in Doings
  BY <1>1 DEF HandlerOK, Doings, Disturbed
<1> QED BY <1>1 DEF HandlersInv

LEMMA AppAudioKeeps ==
  ASSUME IInv, NEW s \in Setting, NEW v \in Argument(s), AppAudio(s, v)
  PROVE  IInv'
<1>1. s # "workspace" /\ v \in Value(s) /\ v \in Values
  BY DEF AppAudio, Value, Values
<1>2. SettingsInv'
  BY <1>1 DEF AppAudio, IInv, SettingsInv
<1>3. HandlersInv'
  BY DisturbKeeps DEF AppAudio, IInv
<1> QED BY <1>2, <1>3 DEF AppAudio, IInv, StacksInv

LEMMA SwitchKeyKeeps == IInv /\ SwitchKey => IInv'
<1> SUFFICES ASSUME IInv, SwitchKey PROVE IInv'
  OBVIOUS
<1>1. Value("workspace") = 0 .. WorkspaceCount - 1 /\ "workspace" \in Setting
  BY DEF Value, SwitchKey
<1>2. settings["workspace"] \in 0 .. WorkspaceCount - 1
  BY <1>1 DEF IInv, SettingsInv
<1>3. ASSUME NEW step \in {1, WorkspaceCount - 1}
      PROVE  (settings["workspace"] + step) % WorkspaceCount \in Value("workspace")
  BY <1>1, <1>2, CountAssumption
<1>4. SettingsInv'
  <2>1. PICK v \in Value("workspace") : settings' = [settings EXCEPT !["workspace"] = v]
    BY <1>3 DEF SwitchKey
  <2>2. v \in Values
    BY <1>1, <2>1 DEF Values
  <2> QED BY <1>1, <2>1, <2>2 DEF IInv, SettingsInv
<1>5. HandlersInv'
  BY DisturbKeeps DEF SwitchKey, IInv
<1> QED BY <1>4, <1>5 DEF SwitchKey, IInv, StacksInv

LEMMA NextKeeps == IInv /\ [Next]_vars => IInv'
<1> SUFFICES ASSUME IInv, [Next]_vars PROVE IInv'
  OBVIOUS
<1>1. ASSUME NEW h \in Handler, HandlerStep(h) PROVE IInv'
  BY <1>1, IssueKeeps, UndoKeeps, RedoKeeps, LookupKeeps, ReadOldKeeps, ApplyKeeps,
     PushUndoKeeps DEF HandlerStep
<1>2. ASSUME NEW s \in Setting, NEW v \in Argument(s), AppAudio(s, v) PROVE IInv'
  BY <1>2, AppAudioKeeps
<1>3. CASE UNCHANGED vars
  BY <1>3 DEF vars, IInv, StacksInv, SettingsInv, HandlersInv
<1> QED
  BY <1>1, <1>2, <1>3, SwitchKeyKeeps DEF Next

-----------------------------------------------------------------------------
(* What a command that nothing overlaps finds                              *)

LEMMA InitHistory == Init => HistoryInv
  BY DEF Init, HistoryInv, SeenInv, ToldInv, BeforeInv, Alone, Idle

LEMMA NoneIsNoSetting ==
  ASSUME SettingsInv
  PROVE  settings # None
<1>1. Values \subseteq UNION {Argument(s) : s \in Setting}
  BY ValueIsArgument DEF Values
<1> QED BY <1>1, NoneAssumption DEF SettingsInv

LEMMA LastOfAppend ==
  ASSUME NEW S, NEW s \in Seq(S), NEW e \in S
  PROVE  Append(s, e) # << >> /\ Last(Append(s, e)) = e
<1> DEFINE t == Append(s, e)
<1>1. Len(s) \in Nat /\ Len(t) = Len(s) + 1 /\ t[Len(s) + 1] = e
  BY AppendProperties, LenProperties
<1>2. t # << >>
  BY <1>1, EmptySeq
<1> HIDE DEF t
<1>3. Last(t) = e
  BY <1>1 DEF Last
<1> QED BY <1>2, <1>3 DEF t

LEMMA DisturbedParts ==
  ASSUME NEW r \in Doings
  PROVE  LET d == Disturbed(r) IN
         /\ d.pc = r.pc /\ d.from = r.from /\ d.cmd = r.cmd /\ d.old = r.old
         /\ d.told = None /\ d.seen = None
  BY DEF Doings, Disturbed

(* Whoever begins finds others busy and disturbs them, or is alone.        *)
LEMMA StartFacts ==
  ASSUME HandlersInv, NEW h \in Handler, handler[h].pc = "idle",
         NEW rec \in Doings, rec.pc # "idle", Start(h, rec)
  PROVE  /\ Busy' = Busy \union {h}
         /\ \A g \in Handler : g # h =>
               /\ handler'[g].pc = handler[g].pc /\ handler'[g].from = handler[g].from
               /\ handler'[g].seen = None /\ handler'[g].told = None
         /\ Busy = {} => handler'[h] = [rec EXCEPT !.seen = settings]
         /\ Busy # {} => handler'[h].seen = None /\ handler'[h].told = None
<1>1. \A g \in Handler : handler[g] \in Doings
  BY DEF HandlersInv
<1>2. ASSUME NEW g \in Handler, g # h
      PROVE  handler'[g] = Disturbed(handler[g])
  BY <1>2 DEF Start
<1>3. handler'[h] = IF Busy = {} THEN [rec EXCEPT !.seen = settings] ELSE Disturbed(rec)
  BY DEF Start
<1>4. handler'[h].pc = rec.pc
  BY <1>3, DisturbedParts DEF Doings
<1>5. \A g \in Handler : g # h => handler'[g].pc = handler[g].pc
  BY <1>1, <1>2, DisturbedParts
<1>6. Busy' = Busy \union {h}
  BY <1>4, <1>5 DEF Busy
<1> QED BY <1>1, <1>2, <1>3, <1>6, DisturbedParts

LEMMA StartSeen ==
  ASSUME IInv, NEW h \in Handler, handler[h].pc = "idle",
         NEW rec \in Doings, rec.pc \in {"lookup", "read"}, Start(h, rec), settings' = settings
  PROVE  SeenInv'
<1> SUFFICES ASSUME NEW g \in Handler, Alone(g)'
             PROVE  /\ Busy' = {g} /\ settings' = handler'[g].seen
                    /\ handler'[g].pc \in {"lookup", "read"}
  BY DEF SeenInv
<1>1. g = h /\ Busy = {}
  BY StartFacts DEF Alone, IInv
<1>2. handler'[h] = [rec EXCEPT !.seen = settings] /\ Busy' = {h}
  BY <1>1, StartFacts DEF IInv
<1> QED BY <1>1, <1>2 DEF Doings

LEMMA IssueHistory ==
  ASSUME IInv, HistoryInv, NEW h \in Handler, NEW c \in Command, Issue(h, c)
  PROVE  HistoryInv'
<1> DEFINE rec == [Idle EXCEPT !.pc = "read", !.cmd = c]
<1>1. /\ rec \in Doings /\ rec.pc = "read" /\ rec.told = None
      /\ handler[h].pc = "idle" /\ Start(h, rec)
      /\ UNCHANGED <<settings, undo_stack, redo_stack, before>>
  BY DEF Issue, Doings, Idle
<1> HIDE DEF rec
<1>2. SeenInv'
  BY <1>1, StartSeen
<1>3. ToldInv'
  <2>1. \A g \in Handler : g # h => handler'[g].told = None
    BY <1>1, StartFacts DEF IInv
  <2>2. Busy # {} => handler'[h].told = None
    BY <1>1, StartFacts DEF IInv
  <2>3. Busy = {} => handler'[h] = [rec EXCEPT !.seen = settings]
    BY <1>1, StartFacts DEF IInv
  <2>4. [rec EXCEPT !.seen = settings].told = None
    BY <1>1 DEF Doings
  <2> QED BY <2>1, <2>2, <2>3, <2>4 DEF ToldInv
<1>4. BeforeInv'
  <2>1. OnTop => OnTop'
    BY <1>1 DEF OnTop, Applied, Effective
  <2>2. ASSUME NEW g \in Handler, handler[g].pc = "record" PROVE handler'[g].pc = "record"
    BY <1>1, <2>2, StartFacts DEF IInv
  <2>3. ASSUME NEW g \in Handler, Undoing(g) PROVE Undoing(g)'
    <3>1. g # h
      BY <1>1, <2>3 DEF Undoing
    <3> QED BY <1>1, <2>3, <3>1, StartFacts DEF IInv, Undoing, Alone
  <2> QED BY <1>1, <2>1, <2>2, <2>3 DEF HistoryInv, BeforeInv
<1> QED BY <1>2, <1>3, <1>4 DEF HistoryInv

LEMMA NobodyBusy ==
  ASSUME BeforeInv, Busy = {}, before # None
  PROVE  OnTop
<1>1. \A g \in Handler : handler[g].pc = "idle"
  BY DEF Busy
<1> QED BY <1>1 DEF BeforeInv, Undoing

LEMMA UndoHistory ==
  ASSUME IInv, HistoryInv, NEW h \in Handler, Undo(h)
  PROVE  HistoryInv'
<1> DEFINE e == Last(undo_stack)
           rec == [Idle EXCEPT !.pc = "lookup", !.from = "undo",
                               !.told = IF undo_stack # << >> THEN e.undo ELSE None]
<1>1. /\ handler[h].pc = "idle" /\ Start(h, rec)
      /\ before' = (IF Busy = {} THEN before ELSE None) /\ settings' = settings
  BY DEF Undo
<1>2. undo_stack # << >> => /\ e \in Entry /\ redo_stack' = Append(redo_stack, e)
                           /\ redo_stack' # << >> /\ Last(redo_stack') = e
  BY FrontAndLast, LastOfAppend DEF IInv, StacksInv, Undo
<1>3. /\ rec \in Doings /\ rec.pc = "lookup" /\ rec.from = "undo"
      /\ rec.told = IF undo_stack # << >> THEN e.undo ELSE None
  <2>1. undo_stack # << >> => e.undo \in Command
    BY <1>2, RecordedIsCommand DEF Entry
  <2> HIDE DEF e
  <2> QED BY <2>1 DEF Doings, Idle
<1> HIDE DEF e, rec
<1>4. SeenInv'
  BY <1>1, <1>3, StartSeen
<1>5. ASSUME Busy = {}
      PROVE  /\ handler'[h].pc = "lookup" /\ handler'[h].from = "undo" /\ Alone(h)'
             /\ handler'[h].told = IF undo_stack # << >> THEN e.undo ELSE None
  <2>1. handler'[h] = [rec EXCEPT !.seen = settings]
    BY <1>1, <1>3, <1>5, StartFacts DEF IInv
  <2>2. settings # None
    BY NoneIsNoSetting DEF IInv
  <2> QED BY <1>3, <2>1, <2>2 DEF Doings, Alone
<1>6. ToldInv'
  <2> SUFFICES ASSUME NEW g \in Handler, handler'[g].told # None
               PROVE  /\ Alone(g)' /\ handler'[g].pc = "lookup" /\ handler'[g].from = "undo"
                      /\ redo_stack' # << >> /\ Last(redo_stack').undo = handler'[g].told
    BY DEF ToldInv
  <2>1. g = h /\ Busy = {}
    BY <1>1, <1>3, StartFacts DEF IInv
  <2> QED BY <1>2, <1>5, <2>1
<1>7. BeforeInv'
  <2> SUFFICES ASSUME before' # None PROVE Undoing(h)'
    BY DEF BeforeInv
  <2>1. Busy = {} /\ OnTop
    BY <1>1, NobodyBusy DEF HistoryInv
  <2>2. undo_stack # << >> /\ (e.undo.setting = "theme" => settings["theme"] # e.undo.value)
    BY <2>1 DEF OnTop, Effective, e
  <2>3. redo_stack' # << >> /\ Last(redo_stack').undo = e.undo
    BY <1>2, <2>2
  <2>4. Effective(Last(redo_stack).undo)'
    BY <1>1, <2>2, <2>3 DEF Effective
  <2> QED BY <1>5, <2>1, <2>3, <2>4 DEF Undoing
<1> QED BY <1>4, <1>6, <1>7 DEF HistoryInv

LEMMA RedoHistory ==
  ASSUME IInv, HistoryInv, NEW h \in Handler, Redo(h)
  PROVE  HistoryInv'
<1> DEFINE e == Last(redo_stack)
           rec == [Idle EXCEPT !.pc = "lookup", !.from = "redo",
                               !.told = IF redo_stack # << >> THEN e.command ELSE None]
<1>1. /\ handler[h].pc = "idle" /\ Start(h, rec)
      /\ before' = (IF Busy = {} THEN before ELSE None) /\ settings' = settings
  BY DEF Redo
<1>2. redo_stack # << >> => /\ e \in Entry /\ undo_stack' = Append(undo_stack, e)
                           /\ undo_stack' # << >> /\ Last(undo_stack') = e
  BY FrontAndLast, LastOfAppend DEF IInv, StacksInv, Redo
<1>3. /\ rec \in Doings /\ rec.pc = "lookup" /\ rec.from = "redo"
      /\ rec.told = IF redo_stack # << >> THEN e.command ELSE None
  <2>1. redo_stack # << >> => e.command \in Command
    BY <1>2, RecordedIsCommand DEF Entry
  <2> HIDE DEF e
  <2> QED BY <2>1 DEF Doings, Idle
<1> HIDE DEF e, rec
<1>4. SeenInv'
  BY <1>1, <1>3, StartSeen
<1>5. ASSUME Busy = {}
      PROVE  /\ handler'[h].pc = "lookup" /\ handler'[h].from = "redo" /\ Alone(h)'
             /\ handler'[h].told = IF redo_stack # << >> THEN e.command ELSE None
  <2>1. handler'[h] = [rec EXCEPT !.seen = settings]
    BY <1>1, <1>3, <1>5, StartFacts DEF IInv
  <2>2. settings # None
    BY NoneIsNoSetting DEF IInv
  <2> QED BY <1>3, <2>1, <2>2 DEF Doings, Alone
<1>6. ToldInv'
  <2> SUFFICES ASSUME NEW g \in Handler, handler'[g].told # None
               PROVE  /\ Alone(g)' /\ handler'[g].pc = "lookup" /\ handler'[g].from = "redo"
                      /\ undo_stack' # << >> /\ Last(undo_stack').command = handler'[g].told
    BY DEF ToldInv
  <2>1. g = h /\ Busy = {}
    BY <1>1, <1>3, StartFacts DEF IInv
  <2> QED BY <1>2, <1>5, <2>1
(* What is on top stays there: nothing could be redone. *)
<1>7. BeforeInv'
  <2> SUFFICES ASSUME before' # None PROVE OnTop'
    BY DEF BeforeInv
  <2>1. Busy = {} /\ OnTop
    BY <1>1, NobodyBusy DEF HistoryInv
  <2>2. UNCHANGED <<undo_stack, redo_stack, settings, before>>
    BY <1>1, <2>1 DEF OnTop, Redo
  <2> QED BY <2>1, <2>2 DEF OnTop, Applied, Effective
<1> QED BY <1>4, <1>6, <1>7 DEF HistoryInv

(* A busy thread: no other is alone.                                       *)
LEMMA OnlyBusy ==
  ASSUME HistoryInv, NEW h \in Handler, handler[h].pc # "idle",
         NEW g \in Handler, Alone(g) \/ handler[g].told # None
  PROVE  g = h
<1>1. h \in Busy
  BY DEF Busy
<1> QED BY <1>1 DEF HistoryInv, SeenInv, ToldInv

(* One thread returns and leaves stacks and settings as they are.          *)
LEMMA ReturnHistory ==
  ASSUME IInv, HistoryInv, NEW h \in Handler, handler[h].pc # "idle",
         handler' = [handler EXCEPT ![h] = Idle]
  PROVE  SeenInv' /\ ToldInv'
<1>1. ASSUME NEW g \in Handler PROVE ~Alone(g)' /\ handler'[g].told = None
  <2>1. CASE g = h
    BY <2>1 DEF IInv, HandlersInv, Idle, Alone
  <2>2. CASE g # h
    BY <2>2, OnlyBusy DEF IInv, HandlersInv, Alone
  <2> QED BY <2>1, <2>2
<1> QED BY <1>1 DEF SeenInv, ToldInv

(* What a busy thread does leaves the others where they are.               *)
LEMMA OthersKeep ==
  ASSUME IInv, NEW h \in Handler, NEW rec, handler' = [handler EXCEPT ![h] = rec]
  PROVE  handler'[h] = rec /\ \A g \in Handler : g # h => handler'[g] = handler[g]
  BY DEF IInv, HandlersInv

LEMMA LookupHistory ==
  ASSUME IInv, HistoryInv, NEW h \in Handler, Lookup(h)
  PROVE  HistoryInv'
<1> DEFINE stack == IF handler[h].from = "undo" THEN redo_stack ELSE undo_stack
<1>1. handler[h].pc = "lookup" /\ UNCHANGED <<settings, undo_stack, redo_stack, before>>
  BY DEF Lookup
<1>2. OnTop => OnTop'
  BY <1>1 DEF OnTop, Applied, Effective
<1>3. CASE stack = << >>
  <2>1. handler' = [handler EXCEPT ![h] = Idle]
    BY <1>3 DEF Lookup
  <2>2. SeenInv' /\ ToldInv'
    BY <1>1, <2>1, ReturnHistory
  <2>3. BeforeInv'
    <3>1. ASSUME NEW g \in Handler, Undoing(g) PROVE g # h /\ Undoing(g)'
      <4>1. g # h
        BY <1>3, <1>1, <3>1 DEF Undoing
      <4> QED BY <1>1, <2>1, <3>1, <4>1, OthersKeep DEF Undoing, Alone, Effective
    <3>2. ASSUME NEW g \in Handler, handler[g].pc = "record" PROVE handler'[g].pc = "record"
      BY <1>1, <2>1, <3>2, OthersKeep
    <3> QED BY <1>1, <1>2, <3>1, <3>2 DEF HistoryInv, BeforeInv
  <2> QED BY <2>2, <2>3 DEF HistoryInv
<1>4. CASE stack # << >>
  <2> DEFINE c == IF handler[h].from = "undo" THEN Last(stack).undo ELSE Last(stack).command
             rec == [handler[h] EXCEPT !.pc = "read", !.cmd = c]
  <2>1. handler' = [handler EXCEPT ![h] = rec]
    BY <1>4 DEF Lookup
  <2>2. /\ rec.pc = "read" /\ rec.cmd = c /\ rec.from = handler[h].from
        /\ rec.told = handler[h].told /\ rec.seen = handler[h].seen
    BY DEF IInv, HandlersInv, Doings
  <2>3. handler[h].from = "undo" => stack = redo_stack /\ c = Last(redo_stack).undo
    OBVIOUS
  <2>4. handler[h].from # "undo" => stack = undo_stack /\ c = Last(undo_stack).command
    OBVIOUS
  <2> HIDE DEF rec, c, stack
  <2>5. handler'[h] = rec /\ \A g \in Handler : g # h => handler'[g] = handler[g]
    BY <2>1, OthersKeep
  <2>6. Busy' = Busy
    BY <1>1, <2>2, <2>5 DEF Busy
  <2>7. SeenInv'
    <3> SUFFICES ASSUME NEW g \in Handler, Alone(g)'
                 PROVE  Busy' = {g} /\ handler'[g].pc = "read" /\ settings' = handler'[g].seen
      BY DEF SeenInv
    <3>1. g = h /\ Alone(h)
      BY <1>1, <2>2, <2>5, OnlyBusy DEF Alone
    <3> QED BY <1>1, <2>2, <2>5, <2>6, <3>1 DEF HistoryInv, SeenInv
  <2>8. ToldInv'
    <3> SUFFICES ASSUME NEW g \in Handler, handler'[g].told # None
                 PROVE  /\ Alone(g)' /\ handler'[g].pc = "read"
                        /\ handler'[g].cmd = handler'[g].told
      BY DEF ToldInv
    <3>1. g = h /\ handler[h].told # None
      BY <1>1, <2>2, <2>5, OnlyBusy
    <3>2. c = handler[h].told /\ Alone(h)
      BY <1>1, <2>3, <2>4, <3>1 DEF HistoryInv, ToldInv
    <3> QED BY <2>2, <2>5, <3>1, <3>2 DEF Alone
  <2>9. BeforeInv'
    <3>1. ASSUME Undoing(h) PROVE Undoing(h)'
      BY <1>1, <2>2, <2>3, <2>5, <3>1 DEF Undoing, Alone, Effective
    <3>2. ASSUME NEW g \in Handler, g # h, Undoing(g) PROVE Undoing(g)'
      BY <1>1, <2>5, <3>2 DEF Undoing, Alone, Effective
    <3>3. ASSUME NEW g \in Handler, handler[g].pc = "record" PROVE handler'[g].pc = "record"
      BY <1>1, <2>5, <3>3
    <3> QED BY <1>1, <1>2, <3>1, <3>2, <3>3 DEF HistoryInv, BeforeInv
  <2> QED BY <2>7, <2>8, <2>9 DEF HistoryInv
<1> QED BY <1>3, <1>4

LEMMA ReadOldHistory ==
  ASSUME IInv, HistoryInv, NEW h \in Handler, ReadOld(h)
  PROVE  HistoryInv'
<1> DEFINE old == settings[handler[h].cmd.setting]
           rec == [handler[h] EXCEPT !.pc = "apply", !.old = old]
<1>1. /\ handler[h].pc = "read" /\ handler' = [handler EXCEPT ![h] = rec]
      /\ UNCHANGED <<settings, undo_stack, redo_stack, before>>
  BY DEF ReadOld, IInv, HandlersInv
<1>2. /\ rec.pc = "apply" /\ rec.old = old /\ rec.cmd = handler[h].cmd
      /\ rec.from = handler[h].from /\ rec.told = handler[h].told /\ rec.seen = handler[h].seen
  BY DEF IInv, HandlersInv, Doings
<1> HIDE DEF rec
<1>3. handler'[h] = rec /\ \A g \in Handler : g # h => handler'[g] = handler[g]
  BY <1>1, OthersKeep
<1>4. Busy' = Busy
  BY <1>1, <1>2, <1>3 DEF Busy
<1>5. SeenInv'
  <2> SUFFICES ASSUME NEW g \in Handler, Alone(g)'
               PROVE  /\ Busy' = {g} /\ handler'[g].pc = "apply" /\ settings' = handler'[g].seen
                      /\ handler'[g].old = handler'[g].seen[handler'[g].cmd.setting]
    BY DEF SeenInv
  <2>1. g = h /\ Alone(h)
    BY <1>1, <1>2, <1>3, OnlyBusy DEF Alone
  <2> QED BY <1>1, <1>2, <1>3, <1>4, <2>1 DEF HistoryInv, SeenInv
<1>6. ToldInv'
  <2> SUFFICES ASSUME NEW g \in Handler, handler'[g].told # None
               PROVE  /\ Alone(g)' /\ handler'[g].pc = "apply"
                      /\ handler'[g].cmd = handler'[g].told
    BY DEF ToldInv
  <2>1. g = h /\ handler[h].told # None
    BY <1>1, <1>2, <1>3, OnlyBusy
  <2> QED BY <1>1, <1>2, <1>3, <2>1 DEF HistoryInv, ToldInv, Alone
<1>7. BeforeInv'
  <2>1. OnTop => OnTop'
    BY <1>1 DEF OnTop, Applied, Effective
  <2>2. ASSUME NEW g \in Handler, Undoing(g) PROVE Undoing(g)'
    BY <1>1, <1>2, <1>3, <2>2 DEF Undoing, Alone, Effective
  <2>3. ASSUME NEW g \in Handler, handler[g].pc = "record" PROVE handler'[g].pc = "record"
    BY <1>1, <1>3, <2>3
  <2> QED BY <1>1, <2>1, <2>2, <2>3 DEF HistoryInv, BeforeInv
<1> QED BY <1>5, <1>6, <1>7 DEF HistoryInv

LEMMA ApplyHistory ==
  ASSUME IInv, HistoryInv, NEW h \in Handler, Apply(h)
  PROVE  HistoryInv'
<1> DEFINE s == handler[h].cmd.setting
           v == Clamped(s, handler[h].cmd.value)
           same == s = "theme" /\ settings[s] = v
           rec == [handler[h] EXCEPT !.pc = "record"]
<1>1. /\ handler[h].pc = "apply" /\ settings' = [settings EXCEPT ![s] = v]
      /\ before' = (IF Alone(h) THEN before ELSE None)
      /\ UNCHANGED <<undo_stack, redo_stack>>
  BY DEF Apply, Remember
<1>2. s \in Setting /\ settings \in [Setting -> Values]
  BY <1>1, CommandParts DEF IInv, HandlersInv, HandlerOK, SettingsInv
<1>3. CASE same
  <2>1. handler' = [handler EXCEPT ![h] = Idle] /\ settings' = settings
    BY <1>1, <1>2, <1>3 DEF Apply
  <2>2. SeenInv' /\ ToldInv'
    BY <1>1, <2>1, ReturnHistory
  <2>3. BeforeInv'
    <3> SUFFICES ASSUME before' # None PROVE OnTop'
      BY DEF BeforeInv
    <3>1. Alone(h) /\ before # None /\ before' = before
      BY <1>1
    <3>2. ASSUME NEW g \in Handler, Undoing(g) \/ handler[g].pc = "record" PROVE FALSE
      <4>1. g \in Busy
        BY <3>2 DEF Undoing, Busy
      <4>2. g = h
        BY <3>1, <4>1 DEF HistoryInv, SeenInv
      <4>3. v = handler[h].cmd.value
        BY <1>3 DEF Clamped
      <4> QED BY <1>1, <1>3, <3>1, <3>2, <4>2, <4>3 DEF Undoing, Effective
    <3>3. OnTop
      BY <3>1, <3>2 DEF HistoryInv, BeforeInv
    <3> QED BY <1>1, <2>1, <3>1, <3>3 DEF OnTop, Applied, Effective
  <2> QED BY <2>2, <2>3 DEF HistoryInv
<1>4. CASE ~same
  <2>1. handler' = [handler EXCEPT ![h] = rec]
    BY <1>4 DEF Apply
  <2>2. /\ rec.pc = "record" /\ rec.old = handler[h].old /\ rec.cmd = handler[h].cmd
        /\ rec.told = handler[h].told /\ rec.seen = handler[h].seen
    BY DEF IInv, HandlersInv, Doings
  <2> HIDE DEF rec
  <2>3. handler'[h] = rec /\ \A g \in Handler : g # h => handler'[g] = handler[g]
    BY <2>1, OthersKeep
  <2>4. Busy' = Busy
    BY <1>1, <2>2, <2>3 DEF Busy
  <2>5. SeenInv'
    <3> SUFFICES ASSUME NEW g \in Handler, Alone(g)'
                 PROVE  LET r == handler'[g] IN
                        /\ Busy' = {g} /\ r.pc = "record" /\ r.old = r.seen[r.cmd.setting]
                        /\ settings' = [r.seen EXCEPT ![r.cmd.setting]
                                                        = Clamped(r.cmd.setting, r.cmd.value)]
                        /\ r.cmd.setting = "theme" => settings'["theme"] # r.old
      BY DEF SeenInv
    <3>1. g = h /\ Alone(h)
      BY <1>1, <2>2, <2>3, OnlyBusy DEF Alone
    <3>2. /\ Busy = {h} /\ settings = handler[h].seen
          /\ handler[h].old = handler[h].seen[s]
      BY <1>1, <3>1 DEF HistoryInv, SeenInv
    <3>3. s = "theme" => settings'["theme"] # handler[h].old
      BY <1>1, <1>2, <1>4, <3>2
    <3> QED BY <1>1, <2>2, <2>3, <2>4, <3>1, <3>2, <3>3
  <2>6. ToldInv'
    <3> SUFFICES ASSUME NEW g \in Handler, handler'[g].told # None
                 PROVE  /\ Alone(g)' /\ handler'[g].pc = "record"
                        /\ handler'[g].cmd = handler'[g].told
      BY DEF ToldInv
    <3>1. g = h /\ handler[h].told # None
      BY <1>1, <2>2, <2>3, OnlyBusy
    <3> QED BY <1>1, <2>2, <2>3, <3>1 DEF HistoryInv, ToldInv, Alone
  <2>7. BeforeInv'
    BY <2>2, <2>3 DEF BeforeInv
  <2> QED BY <2>5, <2>6, <2>7 DEF HistoryInv
<1> QED BY <1>3, <1>4

(* The new entry gives back the settings with which its command began.     *)
LEMMA PushUndoHistory ==
  ASSUME IInv, HistoryInv, NEW h \in Handler, PushUndo(h)
  PROVE  HistoryInv'
<1> DEFINE c == handler[h].cmd
           old == handler[h].old
           entry == Captured(c.setting, old, c.value)
           kept == IF Len(undo_stack) >= MAX_UNDO THEN Tail(undo_stack) ELSE undo_stack
<1>1. /\ handler[h].pc = "record" /\ undo_stack' = Append(kept, entry) /\ redo_stack' = << >>
      /\ before' = handler[h].seen /\ handler' = [handler EXCEPT ![h] = Idle]
      /\ settings' = settings
  BY DEF PushUndo
<1>2. SeenInv' /\ ToldInv'
  BY <1>1, ReturnHistory
<1>3. c \in Command /\ c.setting \in Setting /\ old \in Value(c.setting)
      /\ handler[h].seen \in [Setting -> Values] \union {None}
  BY <1>1, CommandParts DEF IInv, HandlersInv, HandlerOK, Doings
<1>4. undo_stack' # << >> /\ Last(undo_stack') = entry
  <2>1. kept \in Seq(Entry)
    <3>1. Len(undo_stack) >= MAX_UNDO => undo_stack # << >>
      BY EmptySeq, MaxUndoAssumption
    <3> QED BY <3>1, HeadTailProperties DEF IInv, StacksInv
  <2>2. entry \in Entry
    BY <1>3, CommandParts, CapturedIsEntry
  <2> HIDE DEF kept, entry
  <2> QED BY <1>1, <2>1, <2>2, LastOfAppend
<1>5. BeforeInv'
  <2> SUFFICES ASSUME before' # None PROVE OnTop'
    BY DEF BeforeInv
  <2>1. /\ settings = [before' EXCEPT ![c.setting] = Clamped(c.setting, c.value)]
        /\ old = before'[c.setting] /\ before' \in [Setting -> Values]
        /\ c.setting = "theme" => settings["theme"] # old
    BY <1>1, <1>3 DEF HistoryInv, SeenInv, Alone
  <2>2. entry.undo = [setting |-> c.setting, value |-> old]
    BY DEF Captured
  <2>3. Clamped(c.setting, old) = old
    BY <1>3, CountAssumption DEF Clamped, Value
  <2> HIDE DEF entry, c, old
  <2>4. [settings' EXCEPT ![c.setting] = old] = before'
    BY <1>1, <1>3, <2>1
  <2>5. Last(undo_stack').undo.setting = c.setting /\ Last(undo_stack').undo.value = old
    BY <1>4, <2>2
  <2>6. [settings' EXCEPT ![Last(undo_stack').undo.setting]
           = Clamped(Last(undo_stack').undo.setting, Last(undo_stack').undo.value)] = before'
    BY <2>3, <2>4, <2>5
  <2> QED BY <1>1, <1>4, <2>1, <2>5, <2>6 DEF OnTop, Applied, Effective
<1> QED BY <1>2, <1>5 DEF HistoryInv

LEMMA DisturbHistory ==
  ASSUME IInv, handler' = [g \in Handler |-> Disturbed(handler[g])], before' = None
  PROVE  HistoryInv'
<1>1. \A g \in Handler : ~Alone(g)' /\ handler'[g].told = None
  BY DisturbedParts DEF IInv, HandlersInv, Alone
<1> QED BY <1>1 DEF HistoryInv, SeenInv, ToldInv, BeforeInv

LEMMA NextHistory == IInv /\ HistoryInv /\ [Next]_vars => HistoryInv'
<1> SUFFICES ASSUME IInv, HistoryInv, [Next]_vars PROVE HistoryInv'
  OBVIOUS
<1>1. ASSUME NEW h \in Handler, HandlerStep(h) PROVE HistoryInv'
  BY <1>1, IssueHistory, UndoHistory, RedoHistory, LookupHistory, ReadOldHistory,
     ApplyHistory, PushUndoHistory DEF HandlerStep
<1>2. ASSUME NEW s \in Setting, NEW v \in Argument(s), AppAudio(s, v) PROVE HistoryInv'
  BY <1>2, DisturbHistory DEF AppAudio
<1>3. CASE SwitchKey
  BY <1>3, DisturbHistory DEF SwitchKey
<1>4. CASE UNCHANGED vars
  BY <1>4 DEF vars, HistoryInv, SeenInv, ToldInv, BeforeInv, OnTop, Undoing, Applied,
              Effective, Alone, Busy
<1> QED BY <1>1, <1>2, <1>3, <1>4 DEF Next

-----------------------------------------------------------------------------
(* For any number of threads and whatever the bound: undo, redo and the    *)
(* commands that record themselves, interleaved at every lock, keep the    *)
(* two stacks together within MAX_UNDO.                                    *)
THEOREM StacksStayBounded == Spec => []StacksBounded
<1>1. IInv => StacksBounded
  BY DEF IInv, StacksInv, StacksBounded
<1> QED
  BY InitInv, NextKeeps, <1>1, PTL DEF Spec

(* No workspace that does not exist is ever selected or recorded.          *)
THEOREM WorkspacesExist == Spec => []WorkspaceInRange
<1>1. ASSUME IInv, "workspace" \in Setting
      PROVE  settings["workspace"] < WorkspaceCount
  BY <1>1, CountAssumption DEF IInv, SettingsInv, Value
<1>2. ASSUME IInv, NEW stack \in {undo_stack, redo_stack}, NEW i \in DOMAIN stack,
             NEW c \in {stack[i].command, stack[i].undo}, c.setting = "workspace"
      PROVE  c.value < WorkspaceCount
  <2>1. stack \in Seq(Entry) /\ i \in 1 .. Len(stack)
    BY <1>2, LenProperties DEF IInv, StacksInv
  <2>2. stack[i] \in Entry
    BY <2>1, ElementOfSeq
  <2>3. c \in Recorded
    BY <2>2 DEF Entry
  <2>4. c.value \in Value(c.setting)
    BY <2>3 DEF Recorded
  <2> QED BY <1>2, <2>4, CountAssumption DEF Value
<1>3. IInv => WorkspaceInRange
  BY <1>1, <1>2 DEF WorkspaceInRange
<1> QED
  BY InitInv, NextKeeps, <1>3, PTL DEF Spec

(* The stacks hold entries of known commands and every thread a command    *)
(* and a value it may have.                                                *)
THEOREM TypeCorrect == Spec => []TypeOK
<1>1. IInv => TypeOK
  <2> SUFFICES ASSUME IInv PROVE TypeOK
    OBVIOUS
  <2>1. Entry \subseteq UndoEntry
    BY RecordedIsCommand DEF Entry, UndoEntry
  <2>2. undo_stack \in Seq(UndoEntry) /\ redo_stack \in Seq(UndoEntry)
    BY <2>1, SeqMonotonic DEF IInv, StacksInv
  <2>3. ASSUME NEW s \in Setting, NEW v \in Value(s)
        PROVE  [setting |-> s, value |-> v] \in Command
    BY RecordedIsCommand DEF Recorded
  <2>4. DOMAIN settings = Setting
        /\ \A s \in Setting : [setting |-> s, value |-> settings[s]] \in Command
    BY <2>3 DEF IInv, SettingsInv
  <2>5. ASSUME NEW h \in Handler, handler[h].pc \in {"apply", "record"}
        PROVE  [setting |-> handler[h].cmd.setting, value |-> handler[h].old] \in Command
    BY <2>3, <2>5, CommandParts DEF IInv, HandlersInv, HandlerOK
  <2> QED BY <2>2, <2>4, <2>5 DEF TypeOK, IInv, HandlersInv, HandlerOK
<1> QED
  BY InitInv, NextKeeps, <1>1, PTL DEF Spec

(* Executing the undo command on top gives every setting the value it had  *)
(* before the last recorded command, when nothing overlapped that command; *)
(* also when the command was itself an undo, or when a redo or a theme     *)
(* that changed nothing came since.                                        *)
THEOREM UndoGivesBack == Spec => []UndoRestores
<1>1. HistoryInv => UndoRestores
  BY NobodyBusy DEF HistoryInv, OnTop, UndoRestores
<1> QED
  BY InitInv, NextKeeps, InitHistory, NextHistory, <1>1, PTL DEF Spec

(* An undo or redo that nothing overlaps executes what its reply said:     *)
(* between pop_undo and undo_command_to_execute the top stays.             *)
THEOREM AnnouncedIsExecuted == Spec => []ExecutesAnnounced
<1>1. HistoryInv => ExecutesAnnounced
  BY DEF HistoryInv, ToldInv, ExecutesAnnounced
<1> QED
  BY InitInv, NextKeeps, InitHistory, NextHistory, <1>1, PTL DEF Spec
===============================================================================
