------------------------------ MODULE LockScreen -------------------------------
(***************************************************************************)
(* Locking and unlocking the screen: the flag, the lock screen application *)
(* (apps/screen-lock) as any thread that locks may start it, the reader    *)
(* that carries out its unlock command, its waiter, and the keyboard, all  *)
(* of whose keys go to it while the flag is set.                           *)
(*                                                                         *)
(* Left out: keys while the screen is not locked, the focus, which the     *)
(* keyboard does not ask while it is; wrong PINs and the pause after three *)
(* of them, which only delay the right one; and the lock screen dying of   *)
(* itself.                                                                 *)
(***************************************************************************)
EXTENDS Naturals

CONSTANTS Locker,     \* threads that may lock: the keyboard (Ctrl+L), handlers of "lock"
          keyboard,
          MaxLock,    \* bound: locks
          MaxFailure  \* bound: failures of spawn_app

Screen == 1 .. MaxLock   \* instances of the application: a lock starts at most one
None   == 0

VARIABLES
    locked,    \* LOCKED
    entry,     \* the registry's entry of screen-lock: status and child_pid
    inbox,     \* the instance that the inbox of screen-lock leads to
    locker,    \* Locker -> where it is in handle_lock_command, and what it starts
    process,   \* Screen -> its process
    typed,     \* instances to which the PIN has been sent
    reader,    \* Screen -> where the reader of its output is, and the pid it found
    waiter,    \* Screen -> whether it has noticed the exit
    locks, failures
vars == <<locked, entry, inbox, locker, process, typed, reader, waiter, locks, failures>>

Init == /\ locked = FALSE
        /\ entry = [status |-> "none", pid |-> None]
        /\ inbox = None
        /\ locker = [t \in Locker |-> [pc |-> "idle", starts |-> None]]
        /\ process = [s \in Screen |-> "none"]
        /\ typed = {}
        /\ reader = [s \in Screen |-> [pc |-> "reading", said |-> FALSE, pid |-> None]]
        /\ waiter = [s \in Screen |-> "waiting"]
        /\ locks = 0 /\ failures = 0

-----------------------------------------------------------------------------
(* Lock: by "lock" or by Ctrl+L                                            *)

CheckUnlocked(t) ==
    /\ locker[t].pc = "idle" /\ ~locked /\ locks < MaxLock
    /\ locks' = locks + 1
    /\ locker' = [locker EXCEPT ![t] = [pc |-> "set", starts |-> locks']]
    /\ UNCHANGED <<locked, entry, inbox, process, typed, reader, waiter, failures>>

SetLocked(t) ==
    /\ locker[t].pc = "set"
    /\ locked' = TRUE
    /\ locker' = [locker EXCEPT ![t].pc = "look"]
    /\ UNCHANGED <<entry, inbox, process, typed, reader, waiter, locks, failures>>

LookForScreen(t) ==
    /\ locker[t].pc = "look"
    /\ locker' = [locker EXCEPT ![t].pc = IF entry.status = "running" THEN "idle" ELSE "inbox"]
    /\ UNCHANGED <<locked, entry, inbox, process, typed, reader, waiter, locks, failures>>

NewInbox(t) ==
    /\ locker[t].pc = "inbox"
    /\ inbox' = locker[t].starts
    /\ locker' = [locker EXCEPT ![t].pc = "spawn"]
    /\ UNCHANGED <<locked, entry, process, typed, reader, waiter, locks, failures>>

Spawn(t) ==
    LET s == locker[t].starts
    IN  /\ locker[t].pc = "spawn"
        /\ process' = [process EXCEPT ![s] = "up"]
        /\ entry' = [status |-> "running", pid |-> s]
        /\ locker' = [locker EXCEPT ![t].pc = "idle"]
        /\ UNCHANGED <<locked, inbox, typed, reader, waiter, locks, failures>>

(* Neither caller looks at the result: the screen stays locked.            *)
SpawnFails(t) ==
    /\ locker[t].pc = "spawn" /\ failures < MaxFailure
    /\ failures' = failures + 1
    /\ inbox' = None
    /\ locker' = [locker EXCEPT ![t].pc = "idle"]
    /\ UNCHANGED <<locked, entry, process, typed, reader, waiter, locks>>

-----------------------------------------------------------------------------
(* The keyboard, and the application                                       *)

(* Keys while locked; what is sent to a process that is gone is lost.      *)
TypePin ==
    /\ locked /\ locker[keyboard].pc = "idle"
    /\ inbox # None /\ typed' = typed \cup {inbox}
    /\ UNCHANGED <<locked, entry, inbox, locker, process, reader, waiter, locks, failures>>

AcceptPin(s) ==
    /\ process[s] = "up" /\ s \in typed
    /\ process' = [process EXCEPT ![s] = "leaving"]
    /\ reader' = [reader EXCEPT ![s].said = TRUE]
    /\ UNCHANGED <<locked, entry, inbox, locker, typed, waiter, locks, failures>>

(* It has said unlock and exits, or its input ended: the inbox leads to a  *)
(* later instance.                                                         *)
Exit(s) ==
    /\ \/ process[s] = "leaving"
       \/ process[s] = "up" /\ inbox # s /\ s \notin typed
    /\ process' = [process EXCEPT ![s] = "gone"]
    /\ UNCHANGED <<locked, entry, inbox, locker, typed, reader, waiter, locks, failures>>

(* wait_app, with restart = "never"                                        *)
Notice(s) ==
    /\ process[s] = "gone" /\ waiter[s] = "waiting"
    /\ waiter' = [waiter EXCEPT ![s] = "done"]
    /\ entry' = [status |-> "stopped", pid |-> None]
    /\ UNCHANGED <<locked, inbox, locker, process, typed, reader, locks, failures>>

-----------------------------------------------------------------------------
(* Unlock, by the reader of the instance that said so                      *)

CheckLocked(s) ==
    /\ reader[s].pc = "reading" /\ reader[s].said
    /\ reader' = [reader EXCEPT ![s] = [@ EXCEPT !.said = FALSE,
                                                 !.pc = IF locked THEN "clear" ELSE "reading"]]
    /\ UNCHANGED <<locked, entry, inbox, locker, process, typed, waiter, locks, failures>>

ClearLocked(s) ==
    /\ reader[s].pc = "clear"
    /\ locked' = FALSE
    /\ reader' = [reader EXCEPT ![s].pc = "find"]
    /\ UNCHANGED <<entry, inbox, locker, process, typed, waiter, locks, failures>>

FindScreen(s) ==
    /\ reader[s].pc = "find"
    /\ reader' = [reader EXCEPT ![s] = [@ EXCEPT !.pid = entry.pid,
                                                 !.pc = IF entry.pid = None THEN "reading" ELSE "kill"]]
    /\ UNCHANGED <<locked, entry, inbox, locker, process, typed, waiter, locks, failures>>

KillScreen(s) ==
    /\ reader[s].pc = "kill"
    /\ process' = [process EXCEPT ![reader[s].pid] = "gone"]
    /\ reader' = [reader EXCEPT ![s].pc = "reading"]
    /\ UNCHANGED <<locked, entry, inbox, locker, typed, waiter, locks, failures>>

Lock(t) == SetLocked(t) \/ LookForScreen(t) \/ NewInbox(t) \/ Spawn(t)
Unlock(s) == CheckLocked(s) \/ ClearLocked(s) \/ FindScreen(s) \/ KillScreen(s)
Leave(s) == AcceptPin(s) \/ Exit(s)

Next == \/ \E t \in Locker : CheckUnlocked(t) \/ Lock(t) \/ SpawnFails(t)
        \/ TypePin
        \/ \E s \in Screen : Leave(s) \/ Notice(s) \/ Unlock(s)

(* Threads and processes run; the user goes on typing the PIN.             *)
Fairness == /\ \A t \in Locker : WF_vars(Lock(t))
            /\ WF_vars(TypePin)
            /\ \A s \in Screen : /\ WF_vars(Leave(s)) /\ WF_vars(Notice(s))
                                 /\ WF_vars(Unlock(s))

Spec == Init /\ [][Next]_vars /\ Fairness

-----------------------------------------------------------------------------
(* "Enter PIN to unlock" (apps/screen-lock/src/main.rs:201): once the      *)
(* screen is locked, someone who goes on entering it unlocks it.           *)
PinUnlocks == locked ~> ~locked
================================================================================
