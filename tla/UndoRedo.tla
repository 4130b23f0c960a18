------------------------------- MODULE UndoRedo -------------------------------
(***************************************************************************)
(* The undo and redo stacks (undo.rs) and the commands that fill them:     *)
(* workspace, volume, mute/unmute and theme (ipc_commands/).  A command    *)
(* reads the setting, writes it and records itself under three separate    *)
(* locks.  The commands undo and redo move an entry under one lock, look   *)
(* the command to execute up again under a second, and then execute it by  *)
(* the ordinary handler, which records it like any other command.          *)
(*                                                                         *)
(* Any thread that reads a command executes it, so handlers interleave.    *)
(* Applications change volume and mute by themselves with VYOMA_AUDIO      *)
(* lines and keys switch workspaces, which is not recorded.  kill and run, *)
(* which are recorded too, change the state of AppLifecycle and are left   *)
(* out here.                                                               *)
(***************************************************************************)
EXTENDS Integers, Sequences, SequencesExt

CONSTANTS Handler,         \* threads that execute commands
          Setting,         \* the settings in play, among AllSettings
          WorkspaceCount,  \* number of workspaces
          VolumeMax,       \* highest volume (100)
          MAX_UNDO,        \* bound of the undo stack (50)
          None             \* no command announced, nothing known

AllSettings == {"workspace", "volume", "mute", "theme"}

ASSUME SettingAssumption == Setting \subseteq AllSettings
ASSUME CountAssumption == WorkspaceCount \in Nat \ {0}
ASSUME VolumeAssumption == VolumeMax \in Nat
ASSUME MaxUndoAssumption == MAX_UNDO \in Nat \ {0}

(* A workspace index beyond the last is accepted and clamped: one such     *)
(* index stands for all.  The other settings refuse invalid values before  *)
(* anything happens.  Muted is 1; the dark theme, which is the default, is *)
(* 0 and the light one 1.                                                  *)
Argument(s) == CASE s = "workspace" -> 0 .. WorkspaceCount
                 [] s = "volume"    -> 0 .. VolumeMax
                 [] s \in {"mute", "theme"} -> {0, 1}

Command  == UNION {{[setting |-> s, value |-> v] : v \in Argument(s)} : s \in Setting}
UndoEntry == [command : Command, undo : Command]

ASSUME NoneAssumption ==
    None \notin Command \union [Setting -> UNION {Argument(s) : s \in Setting}]

(* The value the setting gets: switch_to clamps.                           *)
Clamped(s, v) == IF s = "workspace" /\ v >= WorkspaceCount THEN WorkspaceCount - 1 ELSE v

\* Mutant: the index as it was typed is recorded.
CapturedUnclamped(s, old, v) ==
    [command |-> [setting |-> s, value |-> IF s = "mute" THEN 1 - old ELSE v],
     undo    |-> [setting |-> s, value |-> old]]

\* Mutant: mute is taken to toggle, so muting twice is undone by unmute.
CapturedToggle(s, old, v) ==
    [command |-> [setting |-> s, value |-> Clamped(s, v)],
     undo    |-> [setting |-> s, value |-> IF s = "mute" THEN 1 - Clamped(s, v) ELSE old]]

(* capture_workspace, capture_volume and capture_theme are told the value  *)
(* that was set; capture_mute derives the command from the value it had.   *)
Captured(s, old, v) ==
    [command |-> [setting |-> s, value |-> IF s = "mute" THEN 1 - old ELSE Clamped(s, v)],
     undo    |-> [setting |-> s, value |-> old]]

VARIABLES settings,    \* setting -> its value, each under its own lock
          undo_stack, redo_stack,
          handler,     \* what each thread is doing
          before       \* history: all settings before the recorded command on
                       \* top, None when commands or applications overlapped
vars == <<settings, undo_stack, redo_stack, handler, before>>

(* from: how the command came about.  While nobody else has changed        *)
(* anything since it began, told is what undo or redo announced in its     *)
(* reply, and seen the settings it began with.                             *)
Idle == [pc |-> "idle", from |-> "user", cmd |-> None, old |-> None,
         told |-> None, seen |-> None]

Busy == {h \in Handler : handler[h].pc # "idle"}

Init == /\ settings = [s \in Setting |-> 0]
        /\ undo_stack = <<>>
        /\ redo_stack = <<>>
        /\ handler = [h \in Handler |-> Idle]
        /\ before = None

Alone(h) == handler[h].seen # None
Disturbed(rec) == [rec EXCEPT !.told = None, !.seen = None]

(* h begins: it disturbs those that are busy and is disturbed by them.     *)
Start(h, rec) ==
    handler' = [g \in Handler |->
        IF g # h THEN Disturbed(handler[g])
        ELSE IF Busy = {} THEN [rec EXCEPT !.seen = settings] ELSE Disturbed(rec)]

(* What is known of the settings before the entry on top is lost when a    *)
(* thread acts that was not alone.                                         *)
Remember(h) == before' = IF Alone(h) THEN before ELSE None

Issue(h, c) ==
    /\ handler[h].pc = "idle"
    /\ Start(h, [Idle EXCEPT !.pc = "read", !.cmd = c])
    /\ UNCHANGED <<settings, undo_stack, redo_stack, before>>

(* pop_undo moves the entry to the redo stack, and the reply tells which   *)
(* command will be executed; with an empty stack it tells that it is empty *)
(* and the handler goes on all the same.                                   *)
Undo(h) ==
    /\ handler[h].pc = "idle"
    /\ LET some == undo_stack # <<>> IN
       /\ undo_stack' = IF some THEN Front(undo_stack) ELSE undo_stack
       /\ redo_stack' = IF some THEN Append(redo_stack, Last(undo_stack)) ELSE redo_stack
       /\ Start(h, [Idle EXCEPT !.pc = "lookup", !.from = "undo",
                                !.told = IF some THEN Last(undo_stack).undo ELSE None])
    /\ before' = IF Busy = {} THEN before ELSE None
    /\ UNCHANGED settings

Redo(h) ==
    /\ handler[h].pc = "idle"
    /\ LET some == redo_stack # <<>> IN
       /\ redo_stack' = IF some THEN Front(redo_stack) ELSE redo_stack
       /\ undo_stack' = IF some THEN Append(undo_stack, Last(redo_stack)) ELSE undo_stack
       /\ Start(h, [Idle EXCEPT !.pc = "lookup", !.from = "redo",
                                !.told = IF some THEN Last(redo_stack).command ELSE None])
    /\ before' = IF Busy = {} THEN before ELSE None
    /\ UNCHANGED settings

\* Mutant: the command of an empty stack is executed.
LookupUnchecked(h) ==
    /\ handler[h].pc = "lookup"
    /\ LET stack == IF handler[h].from = "undo" THEN redo_stack ELSE undo_stack IN
       handler' = [handler EXCEPT ![h].pc = "read",
                                  ![h].cmd = IF stack = <<>> THEN None ELSE Last(stack).undo]
    /\ UNCHANGED <<settings, undo_stack, redo_stack, before>>

\* Mutant: the oldest entry is looked up.
LookupOldest(h) ==
    /\ handler[h].pc = "lookup"
    /\ LET stack == IF handler[h].from = "undo" THEN redo_stack ELSE undo_stack IN
       handler' = [handler EXCEPT ![h] =
           IF stack = <<>> THEN Idle
           ELSE [@ EXCEPT !.pc = "read",
                          !.cmd = IF handler[h].from = "undo" THEN Head(stack).undo
                                                              ELSE Head(stack).command]]
    /\ UNCHANGED <<settings, undo_stack, redo_stack, before>>

(* undo_command_to_execute and redo_command_to_execute look at the stack   *)
(* the entry was moved to, whatever is on top of it by now.                *)
Lookup(h) ==
    /\ handler[h].pc = "lookup"
    /\ LET stack == IF handler[h].from = "undo" THEN redo_stack ELSE undo_stack IN
       handler' = [handler EXCEPT ![h] =
           IF stack = <<>> THEN Idle
           ELSE [@ EXCEPT !.pc = "read",
                          !.cmd = IF handler[h].from = "undo" THEN Last(stack).undo
                                                     ELSE Last(stack).command]]
    /\ UNCHANGED <<settings, undo_stack, redo_stack, before>>

ReadOld(h) ==
    /\ handler[h].pc = "read"
    /\ handler' = [handler EXCEPT ![h].pc = "apply",
                                  ![h].old = settings[handler[h].cmd.setting]]
    /\ UNCHANGED <<settings, undo_stack, redo_stack, before>>

(* set_active reports whether the theme changed; an unchanged theme ends   *)
(* the command unrecorded.  The other settings are recorded either way.    *)
Apply(h) ==
    LET s == handler[h].cmd.setting
        v == Clamped(s, handler[h].cmd.value) IN
    /\ handler[h].pc = "apply"
    /\ settings' = [settings EXCEPT ![s] = v]
    /\ handler' = [handler EXCEPT ![h] =
           IF s = "theme" /\ settings[s] = v THEN Idle ELSE [@ EXCEPT !.pc = "record"]]
    /\ Remember(h)
    /\ UNCHANGED <<undo_stack, redo_stack>>

\* Mutant: what could be redone is kept.
PushKeepsRedo(h) ==
    /\ handler[h].pc = "record"
    /\ LET c     == handler[h].cmd
           entry == Captured(c.setting, handler[h].old, c.value)
           kept  == IF Len(undo_stack) >= MAX_UNDO THEN Tail(undo_stack) ELSE undo_stack IN
       undo_stack' = Append(kept, entry)
    /\ before' = handler[h].seen
    /\ handler' = [handler EXCEPT ![h] = Idle]
    /\ UNCHANGED <<settings, redo_stack>>

(* push_undo: a new branch, so what could be redone is forgotten, and the  *)
(* oldest entry makes room.                                                *)
PushUndo(h) ==
    /\ handler[h].pc = "record"
    /\ LET c     == handler[h].cmd
           entry == Captured(c.setting, handler[h].old, c.value)
           kept  == IF Len(undo_stack) >= MAX_UNDO THEN Tail(undo_stack) ELSE undo_stack IN
       undo_stack' = Append(kept, entry)
    /\ redo_stack' = <<>>
    /\ before' = handler[h].seen
    /\ handler' = [handler EXCEPT ![h] = Idle]
    /\ UNCHANGED settings

(* An application's VYOMA_AUDIO line sets volume or mute and records       *)
(* nothing.                                                                *)
AppAudio(s, v) ==
    /\ s \in Setting \cap {"volume", "mute"}
    /\ v # settings[s]
    /\ settings' = [settings EXCEPT ![s] = v]
    /\ handler' = [g \in Handler |-> Disturbed(handler[g])]
    /\ before' = None
    /\ UNCHANGED <<undo_stack, redo_stack>>

(* The keys Ctrl+Right and Ctrl+Left step through the workspaces, also     *)
(* unrecorded.                                                             *)
SwitchKey ==
    /\ "workspace" \in Setting
    /\ \E step \in {1, WorkspaceCount - 1} :
          settings' = [settings EXCEPT !["workspace"] = (@ + step) % WorkspaceCount]
    /\ handler' = [g \in Handler |-> Disturbed(handler[g])]
    /\ before' = None
    /\ UNCHANGED <<undo_stack, redo_stack>>

HandlerStep(h) == Undo(h) \/ Redo(h) \/ Lookup(h) \/ ReadOld(h) \/ Apply(h) \/ PushUndo(h)
                     \/ \E c \in Command : Issue(h, c)

Next == \/ \E h \in Handler : HandlerStep(h)
        \/ \E s \in Setting : \E v \in Argument(s) : AppAudio(s, v)
        \/ SwitchKey

Spec == Init /\ [][Next]_vars

-----------------------------------------------------------------------------
(* Both stacks hold entries of known commands, and a handler past its read *)
(* has a command and the value it found.                                   *)
TypeOK ==
    /\ undo_stack \in Seq(UndoEntry)
    /\ redo_stack \in Seq(UndoEntry)
    /\ DOMAIN settings = Setting
    /\ \A s \in Setting : [setting |-> s, value |-> settings[s]] \in Command
    /\ \A h \in Handler :
          /\ handler[h].pc \in {"read", "apply", "record"} => handler[h].cmd \in Command
          /\ handler[h].pc \in {"apply", "record"} =>
                [setting |-> handler[h].cmd.setting, value |-> handler[h].old] \in Command

(* Only push_undo compares a length with MAX_UNDO; pop_undo and pop_redo   *)
(* push without looking.  Nevertheless the two stacks together never hold  *)
(* more than MAX_UNDO entries, however undo, redo and recorded commands    *)
(* interleave.                                                             *)
StacksBounded == Len(undo_stack) + Len(redo_stack) <= MAX_UNDO

(* No workspace beyond the last is ever selected or recorded: an undo      *)
(* cannot bring back the unclamped index the user typed.                   *)
WorkspaceInRange ==
    "workspace" \in Setting =>
        /\ settings["workspace"] < WorkspaceCount
        /\ \A stack \in {undo_stack, redo_stack} : \A i \in DOMAIN stack :
              \A c \in {stack[i].command, stack[i].undo} :
                 c.setting = "workspace" => c.value < WorkspaceCount

(* The entry on top reverses the last recorded command: executing its undo *)
(* command gives back every setting as it was before that command, which   *)
(* may itself have been an undo.  It is claimed for commands that nothing  *)
(* overlapped; between read, write and record another thread may come.     *)
Applied(c) == [settings EXCEPT ![c.setting] = Clamped(c.setting, c.value)]
UndoRestores ==
    Busy = {} /\ before # None =>
        undo_stack # <<>> /\ Applied(Last(undo_stack).undo) = before

(* An undo or redo that nothing overlaps and that found an entry executes  *)
(* the command that its reply announced, though it looks the command up a  *)
(* second time.                                                            *)
ExecutesAnnounced ==
    \A h \in Handler :
        handler[h].pc \in {"read", "apply", "record"} /\ handler[h].told # None
            => handler[h].cmd = handler[h].told

(* What an undo has undone can be redone: when the undo has ended, and     *)
(* nothing overlapped it, the redo stack holds the entry it moved there.   *)
(* (Test redo_after_undo in undo.rs.)                                      *)
UndoCanBeRedone ==
    [][\A h \in Handler :
          handler[h].from = "undo" /\ handler[h].told # None
          /\ handler'[h].pc = "idle" => redo_stack' # <<>>]_vars
=============================================================================
