# A verification project for the VyomaOS supervisor

VyomaOS boots a Linux kernel whose PID 1 is one Rust program, `supervisor/`.
The supervisor starts every application as a `wasmtime` process, connects its
standard input and output, routes what it writes, restarts it, draws its
windows, and updates applications and the system image.  The applications
(`apps/`), the host tools (`cli/`, `tools/`) and the website are its clients.
This directory models the parts of the supervisor where threads, files and
processes meet, checks them with TLC on small instances and proves what it can
with TLAPS for every instance.  Source paths below are relative to
`supervisor/src/` unless they begin with another directory of the repository.

## The system

Every application has three threads in the supervisor: a *writer* that copies
its inbox channel to its standard input, a *reader* that takes the lines it
prints, and a *waiter* that waits for its process.  Besides these run the
watchdog, the keyboard, the mouse, the memory monitor, the management server with
a thread per connection, and `main`.  There is no event loop: **a command
(`@supervisor: ...`) is executed by whichever thread read it**, so commands run
concurrently with each other and with the waiters.  Threads share

| state | type | lock |
|---|---|---|
| `AppRegistry` | name → state of the application (status, pid, policy, window, log, ages, restart count) | one lock for the map, one per entry |
| `Inbox` | name → channel to the writer thread | one lock |
| `FocusedApp`, the z-order, the workspace table, the lock flag | | one lock each |
| drag and resize state | | one lock each |
| `LAST_SENDER`, `EXEC_REPLY_CHANNELS` | name → sender, name → channel | one lock each |
| the undo and redo stacks | | one lock |
| files under `/data` (slot table, boot counter, installed packages, session) | | none |

Every entry is found by application *name*.  Nothing in an entry tells which
process, waiter or request it belongs to, and handlers release a lock between
looking and acting.  Most of what can go wrong follows from these two facts.

### Inventory

*Application processes* (`app_threads.rs`, `ipc_handlers.rs`).  State: the
registry, the inbox, child processes, one waiter per launched application.
Operations: `spawn_app`, `launch_app_threads`, `wait_app`, `run`, `kill`,
`restart`, `reload`, `update`, the watchdog.  Hard: a waiter applies the restart
policy to deaths that commands cause; entries are replaced while waiters that
will write to them by name still run; spawning can fail half-way; pids are
signalled after the lock is released.  Correct when every process has exactly one
waiter, an application has one process, the registry and the inbox agree with the
processes, exits are noticed and restarts happen.

*Watchdog and memory monitor* (`app_threads.rs`, `main.rs`, `memory.rs`).  State:
in the registry entry, the age of the last output, a backoff, a restart count.
Operations: a pass once a second; a kill when memory pressure becomes critical.
Hard: a restart replaces the state they go by, and the count is entered later.
Correct when each kills the process it means to and no silent one escapes.

*Log streaming* (`app_threads.rs`, `mgmt_handlers.rs`).  State: a buffer of 20
lines and a list of subscribers in the registry entry.  Hard: the buffer is read
and the subscription made under two locks; a restart replaces both; readers of
dead instances still log; a reader ends at the first line that is not UTF-8.
Correct when a follower gets lines in order, none twice, none missing once
subscribed, and is told when the stream has ended.

*Routing and exec* (`router.rs`, `mgmt_handlers.rs`).  State: the inbox,
`LAST_SENDER`, `EXEC_REPLY_CHANNELS`.  Operations: messages between
applications, `@reply:`, `@__mgmt__:`, broadcast, `exec` with a timeout.  Hard:
replies are matched to requests by application name; timeouts, late answers and
restarts.  Correct when a reply reaches the one that asked and exec returns.

*System updates* (`atomic_update.rs`).  State: a table of two slots in a file and
a directory for each slot.  Operations: prepare, activate, rollback, the boot
hooks.  Hard: power failure between file operations, commands that overlap
without a lock, and a table that cannot be read, which is taken for the default
one.  Correct when exactly one slot is active, each operation takes effect at once
or not at all, and the active slot's image is left alone.

*Boot, recovery and packages* (`main.rs`, `recovery.rs`, `packages.rs`).  State: a
boot counter, a list of installed packages and their files.  Hard: power failures
between two writes, and between the two halves of one (`fs::write` empties a file
before it fills it, `writeln!` writes a line and then its newline); errors of
reads and writes, which count as an empty file or are only logged.  Correct when
repeated failures lead into recovery and nothing else does, what is listed is
there, and no boot leaves it out.

*Windows* (`windows.rs`, `win_actions.rs`, `resize.rs`, `mouse_input.rs`,
`input_keys.rs`, `app_threads.rs`).  State: a region, a minimized and a full
screen flag with regions to return to, per application; the z-order; the drag and
the resize under way.  Operations: tiling by any waiter, dragging, resizing,
minimizing, restoring, snapping, full screen.  Hard: each reads and writes under
several holds of the registry's lock, and drags compute from a region read at the
press.  Correct when every window stays reachable and tilings neither overlap nor
leave gaps.

*Undo* (`undo.rs`, `ipc_commands/`).  State: two stacks.  Hard: a pop and the
lookup of what to execute are separate, executing records itself, settings also
change unrecorded.  Correct when undo restores what was and redo what was undone.

*Lock screen* (`ipc_commands/lock.rs`, `input_keys.rs`,
`apps/screen-lock/src/main.rs`).  State: a flag, the lock screen's entry and
inbox.  Hard: unlock clears the flag before it kills what it then finds.  Correct
when a locked screen can be unlocked with the PIN.

*Focus and workspaces* (`toast.rs`, `workspace.rs`, `ipc_commands/`).  Hard:
check-then-act over several locks from the keyboard, the mouse, waiters and
commands.

*Application OTA* (`ota/`, `ota_update.rs`, `auto_update.rs`).  State in files,
written step by step.  Hard: failures between steps, a respawn that fails.

The rest (drawing, input decoding, device and socket I/O, users, archives,
parsing, logging, kernel interfaces) keeps no state that these protocols depend
on, or does one file operation per command; PROJECT.json lists it part by part
with the reason.  `ipc_update.rs` is not part of the crate.

## What is modelled

| module | what | role |
|---|---|---|
| `AppLifecycle` | spawn, wait, restart, commands, watchdog | component |
| `AppLifecycleProofs` | its inductive invariants and theorems, also for when only `kill` is issued | proofs |
| `Watchdog`, `WatchdogProofs` | watchdog pass, backoff, restart counts, memory pressure | component, proofs |
| `LogStream`, `LogStreamProofs` | log buffer, subscribers, restart | component, proofs |
| `MgmtExec`, `MgmtExecProofs` | messages to an application and their replies | component, proofs |
| `SlotOps` | the slot table and the functions on it | operators |
| `SlotTable` | a slot table whose operations are atomic | abstract specification |
| `AtomicUpdate` | the same over files, with crashes and overlap | component, implements `SlotTable` |
| `SerialUpdate` | the same with commands that wait for each other, or overlap | behaviours the run and the proofs distinguish |
| `AtomicUpdateProofs` | inductive invariants, refinement | proofs |
| `Packages` | install and remove, file operation by file operation | component |
| `Boot`, `BootProofs` | the boot and the recovery counter, composed with `Packages` under outages | composition, proofs |
| `WindowGeometry` | tiling, dragging, resizing, snapping as functions | operators |
| `Windows`, `WindowsProofs` | the threads that apply them | component, proofs |
| `UndoRedo`, `UndoRedoProofs` | the two stacks and the commands they record | component, proofs |
| `LockScreen` | lock, unlock, the lock screen's instances, the keyboard | component |
| `MC...` | instances of these | TLC |

An operator with the comment *Mutant* is a plausible bug; PROJECT.json says which
property it breaks when it takes the place of the definition after it.

### AppLifecycle

`proc` and `owner` are the kernel's processes; `registry` and `inbox` are the two
shared maps; the other variables are the locals of the threads.  Handlers are
threads that execute commands, waiters are the threads of `wait_app`.  An action
is what a thread does under one lock or one system call, in the order of the code:

- `spawn_app` is `SpawnRefused` (the manifest), `SpawnBegin` (the channel is
  entered), `SpawnFails` (digest or spawn: the inbox entry is removed **by
  name**), `SpawnProcess`, `Register`.  Waiters and handlers share it.
- `Launch` is `launch_app_threads`, `Resume` the waiter's own continuation.
- `wait_app` is `Reap`, then `MarkAndRestart` or `MarkAndEnd`, which look the
  entry up by name.
- A command reads the registry (`Kill`, `Restart`, `Update`, `Reload`; `Run` does
  not look), and acts on what it read in later actions (`Signal`,
  `SignalThenSpawn`, `UpdateKill`).  `update` signals while it holds the lock, so
  that is one action.
- `Exit` is a process that ends by itself; `WatchdogKill` takes any live process
  that the registry names: which ones are silent is the business of `Watchdog`.

A child's pid also names its inbox channel; `Dangling` is a channel whose reader
is gone.  Pids are not reused while a thread or the registry refers to them: the
signal to a reused pid is listed as a hazard and not modelled.  The specification
starts where boot ends; which pid and which waiter each application has is
arbitrary.

Properties: `Owned` (a process has exactly one thread that will wait for it),
`RunningIsWatched` (an entry shown as running names a child that some thread of
that application has still to handle), `OneInstance`, `StatusAgrees`,
`InboxAgrees`, `DeadIsNoticed`, `AlwaysRestarts`.  The last two are liveness.

### Watchdog

`entry` is the part of an application's state that the two killers read; the
waiter's own restart count is kept apart from the registered one, because the
code does: `spawn_app` registers a fresh state with count 0 and `wait_app` enters
its count afterwards.  `Pass` and `MonitorPass` hold the registry and are one step
each.  `process.quiet` is a history variable, the process's own silence; against
it `KilledForItsSilence` judges the `age` the watchdog went by.  `SilentIsKilled`
says that neither the backoff nor restarts let a silent process live on.
`ReaderBreaks` ends the reader at a line that is not UTF-8 (`app_threads.rs:183`):
the process lives on, nothing it prints is heard, and the watchdog takes it for
silent.  `CountAgrees` says that the registered count is the waiter's except
between registering and counting, and what it is then: 0.  `LeastStableFirst`
compares by the waiters' own counts, victim against every application that runs;
the one that may be spared wrongly is one in that window, because the monitor
takes it for never restarted.

### LogStream

A reader takes a line and logs it in two steps, into whatever state is registered
by then.  It may also break off (`ReaderBreaks`, `app_threads.rs:183`): then
nothing more is read of that instance, and what is in its pipe is lost.  So
`LinesLogged` says that a printed line is logged, unless its reader broke off
before it came to the line.  `handle_logs` is `Snapshot` of the buffer, `SendBacklog`,
`Subscribe`, then `SendLive` until the state with its senders is
replaced (`EndOfStream`).  `logged` records, per registered state, what was logged into it;
`NoLineTwice`, `LiveComplete` and `NothingSkipped` compare what a client was sent
with it.  Lines logged between the two acquisitions are lost to the client; the
properties claim everything else.

### MgmtExec

One application that clients of the management server and other applications
send messages to.  It is given a message's text and not its sender, so it always
answers with the same word (`verb`).  `exec` is `Exec`, `Install`, `Track`,
`Send` or `SendFails`, one of `Receive`, `Timeout` and `Disconnected`, and
`CleanUp`, as in `handle_exec`; `RouteReply`, `RouteToMgmt` and `RouteMgmt` are
the branches of `route_or_print`.  The application may ignore a message, answer
at any time, or end and be started again.  `alone` is a history variable: nothing
overlapped the exec so far.

### AtomicUpdate

The table file and the slot directories are the state on disk; a handler's copy
of the table, its phase and its target slot are volatile.  Reading the table,
verifying, copying, installing, writing the temporary file and renaming it are
separate actions.  A `Crash` discards all volatile state between any two.
`load_state_from` gives the default table for one it cannot read or parse, and
what the operation makes of that is saved over the table on disk.  `load_state` is
therefore a set of tables, one of which an operation picks; `sound`, chosen at the
start, says that reads do not fail, so that each property can say what it owes to
them.  `SlotTable` is what the commands promise: one table, each operation atomic,
on the table or, where it cannot be read, on the default one.
`AtomicUpdate` implements it under the mapping in which an operation takes effect
at the rename, provided operations do not overlap.  `SerialUpdate` adds a variable
`serial` that is chosen once, so that one run has both kinds of behaviour:
those in which handlers wait for each other, about which `AtomicWhenSerial` and
`SerialLeavesActive` speak, and those in which commands overlap.  The image of the
active slot is written over without an overlap in one case only, which
`SerialLeavesActive` names: B is active and the table could not be read.

### Packages and Boot

A copy is `none`, `part` or `whole`.  `installed` is the set of the lines of the
list file, `open` its last line while the newline is missing (`AppendName`,
`AppendNewline`), and `Junk` a line that names no package: a name written after a
line without a newline makes one of the two.  With several handlers a rewrite may
land on what others appended, and any of it may be cut; with one it cannot.

`Boot` is the composition: the steps of `main` up to clearing the counter, commands
once it is up (`recovery-exit` among them), and `PowerFails` at any moment, which
loses processes and handlers and keeps the disk.  Writing the counter may fail
(`CountFails`, `ClearFails`), which the code logs and no more; a package may fail
to start (`SpawnEntry`), which it logs too; and unless the disk is `sound`, any
read of the counter or of the list may fail and counts as 0 or as empty.

Three history variables say what an observer saw.  `unconfirmed` counts the boots
before this one since one cleared the counter, whether the counter on the disk followed or not;
`disturbed` says that one of them was cut short, or met an error, in the very act
of counting itself; `refused` is the set of packages this boot logged an error for.
`RecoveryWhenDue` has two halves.  A boot enters recovery mode only if it is told
to or is the `FAILURE_THRESHOLD`th unconfirmed one: this half has no proviso, so
no outage or error sends the machine into recovery early.  And it does enter, but
for a counter that was disturbed or cannot be read: that half says exactly which
failures make the code miss it.  `ListedIsWhole` and `NoneLeftOut` are about lists
that can be read; `NoneLeftOut` says that by the time the counter is cleared each
listed package has a process or an error of its own, so that none is passed over
silently.

### WindowGeometry and Windows

The arithmetic of tiling, dragging, resizing and snapping is in
`WindowGeometry`, on integers with the code's saturation and clamps.  In
`Windows` the mouse thread goes through a press in the code's order (edge, title
bar, strip, dots, raise), each under its own hold; a tiling is `ReadApps`,
`WritePinned`, `WriteTiles`, in any number of waiters at once.  `TypeOK` includes
that a drag or a resize exists only while the button is held.  `OnScreen` is about
every interleaving, `TilesPartition` about a tiling of exactly what is running, if
the hints of the manifests fit (`HintsFit`): a window above the last row that wants
more than its column gets the whole row, over its neighbours.

### UndoRedo

A command reads the setting, applies and records it under three locks.  `undo` and
`redo` move an entry, look the command up under a second lock and execute it by
the ordinary handler.  `before` and `seen` are history variables for what the
settings were; `told` is what the reply announced.  They are forgotten as soon as
another thread interferes, so `UndoRestores` and `ExecutesAnnounced` are claims
about commands nothing overlapped, while `StacksBounded` and `WorkspaceInRange`
hold whatever overlaps.

### LockScreen

Lockers go through `handle_lock_command` and `spawn_app` step by step; the reader
of the instance that said unlock clears the flag, finds a pid and kills it.  Ctrl+L
executes the same steps in the keyboard thread, which sends no keys meanwhile.

## Runs

| run | expects | shows |
|---|---|---|
| `lifecycle_commands` | pass | all commands, two handlers: `TypeOK`, `Owned`, `RunningIsWatched` |
| `lifecycle_supervise` | pass | kills and the watchdog, fair threads: one instance, registry and inbox agree, exits are noticed, restarts happen |
| `restart_duplicates` | violation | `restart` of an application that is always restarted leaves two processes for good |
| `watchdog` | pass | watchdog and memory monitor over restarts: they kill whom they mean to, but for a restart not counted yet, and a silent process is killed |
| `log_stream` | pass | a client over a restart: order, no line twice, nothing missed once subscribed, streams of replaced states end, everything printed is logged unless the reader broke off |
| `exec_overlap` | pass | two clients, another sender, restarts: an undisturbed exec is answered correctly, no reply goes to two, every exec ends |
| `update_slots` | pass | overlapping commands with crashes and failed reads: one slot active; commands and boot hooks in series: refinement of `SlotTable`, the active image is left alone unless B is active and the table unreadable |
| `boot_packages` | pass | boots, installs and removals with three outages anywhere, failing writes and reads: recovery never early and missed only when a count was lost, listed packages whole and none left out, the machine comes up |
| `windows` | pass | mouse, waiters and keyboard interleaved: windows stay reachable, tilings whose hints fit partition the screen |
| `undo_stacks` | pass | two handlers and unrecorded changes: bounded stacks, workspaces in range, undo restores, announced commands are executed |
| `undo_redo` | violation | what was undone cannot be redone |
| `lock_screen` | violation | after locking, unlocking and locking again the PIN may not unlock |

### Bounds

`lifecycle_commands`: one application, three pids, two waiters, two handlers.
Two handlers and the application's waiter are three threads that can each be
anywhere in `spawn_app` with a process of its own; that is what the three pids
are for.  Two waiters let two instances wait, mark and restart beside each other
while a third is being started.  Applications interact through the shared thread
and pid pools only, so one suffices for invariants of single entries.
`lifecycle_supervise` has two applications (`always` and `on-failure`) because a
waiter for each can hold the spare pid; only the one that is not "always" can
fail to spawn, since a waiter gives up after one failure.

`watchdog`: an application with a limit of two seconds and one without, both in
the background; two restarts and a cap of 3 let the backoff be doubled and
capped.  `log_stream`: two instances of two lines and a buffer of one line, so
that the buffer overflows, the first reader logs into the second state, and a
client can read the buffer of one and subscribe to the other.  `exec_overlap`: one
client sends twice (a retry) while another client and another application send
once: each pair of senders overlaps and each can follow the other's failure.

`update_slots`: two handlers at every file access, and `BootBound` is
`MAX_BOOT_COUNT + 1`, so the boot counter passes the bound of the automatic
rollback.  `boot_packages`: two packages, so that rewriting the list has
something to keep, one handler, the real threshold of 3 and three outages: two
bring the third boot into recovery, and one is left to interrupt that boot, or a
command before or after.  Failing writes are not bounded.

`windows`: three tiled applications (two rows of different widths) and the dock on
a 400 by 600 screen, four points chosen to hit a minimize dot, a title bar, the
corner where tiles meet and a strip; two presses, one exit, one toggle.  On that
screen the second strip hangs over the edge and a tile can be as narrow as the
least width.  One application has a hint as wide as the screen; no order of names
puts it above the last row, so that its hint must have no effect.  `undo_stacks`: a clamped setting, a toggle and a compare-and-set
one, stacks of at most two entries.  `lock_screen`: one user, two locks.

Deadlock is not checked where everything bounded may be used up or the system may
be idle for good.

### Fairness

Liveness assumes weak fairness of threads: `HandlerStep` and `WaiterStep` of
`AppLifecycle`, `ClientStep` of `MgmtExec`, the readers, the spawning waiter and
the connections of `LogStream`, the waiters and the watchdog of `Watchdog`, the
boot of `Boot`, lockers, readers and the waiter of `LockScreen`.  The threads are
kernel threads, the locks they take are held for bounded times, `recv_timeout`
expires, time passes, and a process that was sent SIGKILL ends.  A machine that is
off is switched on, and outages end (their bound is `MaxFail`).  In `LockScreen`
the user goes on entering the PIN and the lock screen, when it is up and has it,
accepts it.  Otherwise nothing is assumed of processes, users or applications: no
process need end, nobody need send a command, no application need answer.

### Findings

Three runs show the code at odds with what its own comments, tests or texts say;
PROJECT.json quotes the lines.

- `restart_duplicates`: `restart` kills and spawns, and the old waiter, woken by
  the kill, restarts the application as well.
- `undo_redo`: the command that `undo` executes records itself, and `push_undo`
  empties the redo stack that `pop_undo` has just filled.
- `lock_screen`: `unlock` clears the flag and kills whatever pid the entry then
  has.  A lock in between either starts a lock screen that this kill ends, or sees
  the exiting one as running and starts none.  The screen is then locked without a
  lock screen: keys go to an inbox nobody reads, and Ctrl+L does nothing.  With a
  single lock (`MaxLock` 1) `PinUnlocks` holds.

### Observations without a run

Met while modelling; each can be had by changing a model's bounds or reading the
lines.

*Processes.*  After `restart` a running application can be shown as stopped, and a
`run` that fails removes the inbox of a running namesake.  The watchdog's backoff
never delays a restart (`main.rs:134` says it does): it is reset with the state it
is in and only delays the next kill.

*Exec.*  A repeated `exec` can be told the late reply to the first.

*Logs.*  A line that is not UTF-8 ends the reader (`app_threads.rs:183`): nothing
the application prints afterwards is logged or routed, its next write meets a
closed pipe, and the watchdog takes it for silent.  `cli/src/commands/logs.rs:3-4` promises reconnection, but the end of the
stream returns `Ok`; lines logged between snapshot and subscription are lost; the
stream of a stopped application stays open until it is started again.

*Updates.*  `atomic_update.rs:77` says "create a default if absent", but any error of
reading or parsing gives the default table, which is then saved: with B active
that makes A active again, and a `prepare` meanwhile writes into B.  `rollback` before any activation activates a slot that was never
written; the boot count of a reactivated slot is not reset; with overlapping
commands `prepare` can write into the slot that has become active, and an
interrupted `prepare` leaves a slot whose image is not the one its digest names.

*Boot and packages.*  The counter includes the boot that reads it, so recovery
comes with the third boot, after two failures; `recovery.rs:17-18` ("Number of
consecutive failed boots before auto-entering recovery") and the message of
`recovery.rs:63` ("3+ consecutive boot failures") can be read as three failures
before.  An outage while the counter is empty, or a write that fails, loses the
count, and recovery mode is missed however many boots have failed.  The counter is
cleared whatever `spawn_app` returned, though `recovery.rs:76-77` says "after all
apps have spawned successfully": an application that never starts does not lead
into recovery.  An outage between the two writes of `packages.rs:76` leaves a name
without its newline; the next install joins its name to that line, and neither
package is listed at the next boot though the command replied ok.  A failed read
of the list makes `pkg-remove` unregister all packages, and an outage between
emptying and filling that list does so too.  With two handlers `ListedIsWhole`
fails, because `pkg-remove` writes back a list it read earlier.

*Windows.*  Two tilings that overlap can leave windows overlapping after both have
ended, each having read the applications at another time (`windows.rs:6`:
"non-overlapping").  A single tiling does too if a window above the last row has a
hint wider than its column (`windows.rs:28-29` calls the full row "best-effort"):
34 manifests of the repository ask for `width = 960`, and the default screen has
columns of 720 from three tiles on.  `manifest.rs:55` says that the layout ignores
these fields; `app_threads.rs:350-352` makes them the hints.  A strip hangs over the right edge unless the width is a
multiple of 240 (`win_actions.rs:132-135`).  A press on a strip begins a drag
before it restores the window; the next motion gives the window the strip's
size.  A respawn between hitting the dot and `do_minimize` leaves a strip that
cannot be restored.  Strips are placed by count, so two can coincide.

*Lock screen.*  `lock` ignores a failed `spawn_app`; an open dropdown menu gets
keys before the lock is checked; two lockers can start two lock screens; the
attempts are not reset after the first lockout, because the branch that does so
(`is_locked_out() && lockout_remaining() == 0`) cannot be reached.

## Proofs

Eight modules of proofs; every theorem holds for every value of the constants that
meets the assumptions named with it.

`AppLifecycleProofs`:

    THEOREM TypeCorrect              == Spec => []TypeOK
    THEOREM ProcessesAreOwned        == Spec => []Owned
    THEOREM RunningEntriesAreWatched == Spec => []RunningIsWatched

from the assumptions that handlers and waiters are different threads, that the
null values are not pids or applications, and that boot.toml gives its
applications one of the three policies.  Neither property is inductive.  `IInv` adds
`Busy` (who is not idle works on an application), `ChildControl` (a thread owns a
child exactly from the entry of its channel to the mark), `ChildUnique` (no
two threads own the same), `ChildFree` and `ChildAlive` (whether the child's
process exists yet, still, or no longer) and `HasOwner` (every process is some
thread's child).  `ChildUnique` is the heart: a fresh pid is nobody's child
(`FreePid`), and `Launch` moves a child instead of copying it.  `RunningIsWatched`
survives `Register` of a second instance because it asks only about the pid in
the entry, and survives the mark by the wrong waiter because that mark makes the
entry *stopped*: the registry can call a live application dead, never the
reverse for good.

    THEOREM SupervisionKeepsOneInstance == ASSUME Command \subseteq {"kill"}
                                           PROVE  Spec => []OneInstance

and with the same hypothesis `SupervisionKeepsStatus` (`StatusAgrees`) and
`SupervisionKeepsInbox` (`InboxAgrees`) build on that invariant.  The restriction
to `kill` is necessary, as `restart_duplicates` shows.  `KInv` says that no handler
is spawning, that an application has at most one waiter (`JobUnique`), and that
from `Register` on the entry, and from `SpawnBegin` on the inbox, of the waiter's
application name the waiter's child.  Lookup by name is then harmless, because a
name has one waiter; lemma `OneWaiterMoves` is where it is used.

`MgmtExecProofs`:

    THEOREM TypeCorrect      == Spec => []TypeOK
    THEOREM AloneIsAnswered  == Spec => []AloneGetsOwnReply
    THEOREM AloneIsOnTheMap  == Spec => []AloneIsReachable
    THEOREM RepliesGoToOne   == Spec => []ReplyGoesToOne

for any number of clients, other senders, messages and restarts.  `RepliesGoToOne`
is about what happens when execs do overlap, and rests on `OnceInv`: a message or
the reply to it is in one place, unread in the inbox, printed and not yet
routed, or held by one client, and it is there once.  It is what keeps the message
of `@reply`, which goes to the client in the reply slot whoever asked, from being
duplicated.  `AloneInv` is what an exec that nothing has overlapped shares with no
one: inbox and lines hold its message only, the slot is its own from `Track` on and
the last sender is `__mgmt__` from `Send` on.

`AtomicUpdateProofs`:

    THEOREM TypeCorrect           == Spec => []TypeOK
    THEOREM ExactlyOneActive      == Spec => []OneActive
    THEOREM SerialRefinement      == OneHandler /\ Spec => AtomicOperations
    THEOREM SerialUpdatesAreAtomic == SerialSpec => AtomicWhenSerial
    THEOREM ActiveImageStays      == SerialSpec => SerialLeavesActive

The first two hold however commands overlap: every table a handler holds was
computed from one with exactly one active slot, so overwriting another's table
loses an update and never a slot, and so has the default table that stands for an
unreadable one.  The refinements map each rename to the abstract
operation and every other step to a stutter, for a single handler and for any
number that wait for each other; `SerialInv` says that the table a busy handler
holds was made from the one on disk, or from the default one, until it renames its
own.  `ActiveImageStays` needs the same: a target slot chosen from a table that is
still the one on disk is not the active one, and one chosen from the default table
is B.

`WatchdogProofs`: `TypeCorrect`, `RestartCountAgrees`, `WatchdogIsJust`
(`KilledForItsSilence`) and `LeastStableIsKilled` (`LeastStableFirst`).  The
invariant `Agree` relates, application by application, entry, process and waiter:
the age of a process whose output has all been read is at most its own silence, and
the count in the entry is the waiter's or, before `EnterCount`, 0.  By the last,
what the monitor maximises is the waiters' count for everyone outside that window,
and at most that for a victim inside it.

`LogStreamProofs`: `TypeCorrect`, `LinesInOrder` (`NoLineTwice`),
`SubscribersMissNothing` (`LiveComplete`), `OnlyTheGapIsLost` (`NothingSkipped`).
Whatever has been logged is older than what its reader holds and than its pipe,
whether the reader goes on or has broken off;
the buffer is the last `LOG_BUF_SIZE` of what was logged into the state; what a
client was sent, is being sent and will be sent is a stretch of it, up to the end
while the state it subscribed to is the registered one.

`BootProofs`:

    THEOREM RecoveryIsDue     == Spec => []RecoveryWhenDue
    THEOREM ListedIsInstalled == ASSUME Sequential PROVE Spec => []ListedIsWhole
    THEOREM ListedIsTried     == ASSUME Sequential PROVE Spec => []NoneLeftOut

`Sequential` is that one application at a time gives commands; `Junk` names no
package (`JunkAssumption`).  `CountInv` follows the counter through every step of
the boot, the halves of `fs::write` and their failures included: what is on the
disk is never more than the unconfirmed boots (this one included, once it has
counted itself), and just as many while nothing has disturbed it and reads
succeed.  `FilesInv` says for each step of a command
what is on the disk of its package and that it is listed only while whole, on a
line with its newline or without.  `SpawnInv` says where in the pass a listed
package is: still to be started, started, or refused.

`WindowsProofs`:

    THEOREM TypeCorrect          == Spec => []TypeOK
    THEOREM WindowsStayReachable == ASSUME Roomy PROVE Spec => []OnScreen
    THEOREM TilingsPartition     == ASSUME Roomy PROVE Spec => TilesPartition
    THEOREM HintsDecideOverlap   (HintsFit(of) <=> no two tiles of `of` overlap)

`Roomy` is a screen with room for nine least tiles beside the dock, strips no
higher than a tile or the dock and no narrower than a tile, and room for ten rows
of strips; the default screen of 1440 by 900 has it.  (The run's screen has not,
but only three tiles.)  One lemma per geometric function shows that it leads to
reachable regions.  The invariant asks it of every region kept anywhere, for a
window to go back to or for a drag or resize to start from, which is why stale
regions do no harm.

`TypeCorrect` does not need `Roomy`: its invariant `Shape` follows the mouse, the
waiters and the depths on any screen, and raising a window keeps the depths a
ranking because the ranks of a chain of sets fill an interval (`RanksFill`).  The
same lemma gives the tiles of a tiling one each to its windows (`IndexOnto`).  The
shares of a length are apart and cover it, so the tiles are apart and cover the
area between menu bar and dock.  That their areas add up to it goes through the
pixels: apart and covering, the regions have as many pixels as that area, and the
sum of areas is the number of pixels.  The last step is about a fold, a recursive
function whose induction theorem the provers cannot instantiate; it is proved from
the function's equation and the smallest set on which the two would differ.
`HintsDecideOverlap` shows that the proviso of `TilesPartition` is not too strong:
without it windows do overlap.

`UndoRedoProofs`: `StacksStayBounded`, `WorkspacesExist`, `TypeCorrect`, and

    THEOREM UndoGivesBack       == Spec => []UndoRestores
    THEOREM AnnouncedIsExecuted == Spec => []ExecutesAnnounced

Undo and redo move an entry between the stacks, so it is their joint length that
is bounded; clamping happens before recording, so recorded values are in range.
The last two are about a history: `SeenInv` relates the settings to what a thread
that nothing disturbed saw when it began, `ToldInv` keeps what was announced on top
of the stack it was moved to, and `BeforeInv` says where the entry that gives back
the settings `before` is: on top of the undo stack, or with a thread that is about
to apply or to record it.  The case in which an undo's own command is not recorded
is why it needs `Effective`: `set_active` records nothing when the theme stays the
same.  They assume that the null value is neither a command nor a choice of
settings (`NoneAssumption`).

Only model-checked: everything that needs fairness (`DeadIsNoticed`,
`AlwaysRestarts`, `ExecEnds`, `SilentIsKilled`, `StreamEnds`, `LinesLogged`,
`ComesUp`), which is out of the prover's reach.  Every other property of a passing
run is a theorem.

## Plan

Done, in this order: application processes, system updates, exec, log streaming,
undo, watchdog, windows, packages and boot, the lock screen, and proofs about all
of them but the lock screen.

Left, in this order:

1. Application OTA (`ota/`, `auto_update.rs`): files written step by step, a
   respawn that fails, composed with the waiter of `AppLifecycle`.
2. The focus (`toast.rs`, `ipc_commands/focus_cmd.rs`) and its transfer away from
   dead applications, composed with `Windows` and `LockScreen`.
3. The order in which handlers take locks, as a graph; reading the focus and
   registry handlers found no cycle.

## Not modelled, and why

Drawing and layout, input decoding, device and socket I/O, cryptography, sandboxing
and parsing: no protocol state, or outside the program.  Contents of messages,
versions, replies' wording: no property depends on them.  The data race-free
counters for ps (uptime, CPU): display only.  The code outside `supervisor/`
(applications, host tools, the website and the vendored templates in hidden
directories, which are most of the repository's lines) are clients or no part of
the system; what applications send is nondeterministic here.  Application OTA and
the focus are as the plan says; PROJECT.json has every part with its reason.
