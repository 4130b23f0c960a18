----------------------------- MODULE AppLifecycle -----------------------------
(***************************************************************************)
(* Application processes and the supervisor threads that start, watch and  *)
(* stop them: spawn_app, launch_app_threads and wait_app (app_threads.rs), *)
(* the commands run, kill, restart, reload and update (ipc_handlers.rs) and*)
(* the watchdog.  One action is what a thread does under one acquisition   *)
(* of a lock, or one system call.                                          *)
(*                                                                         *)
(* A command runs in the thread of whoever sent it, so commands overlap    *)
(* each other and the waiter threads.  Threads find an application's entry *)
(* by name; the entry says nothing about which waiter it belongs to.       *)
(*                                                                         *)
(* Abstractions: exit codes are "ok" (0) and "fail" (anything else, a      *)
(* signal included); a child's pid also names the channel of its inbox;    *)
(* pids are not reused while a thread or the registry refers to them;      *)
(* restart_count, the animation, tiling and focus are left to others.      *)
(***************************************************************************)
EXTENDS Naturals, FiniteSets

CONSTANTS App,        \* application names
          Pid,        \* process ids, bounding the processes alive at once
          Handler,    \* threads that execute commands
          Waiter,     \* waiter threads, one per call of launch_app_threads
          Command,    \* the commands the handlers execute
          BootPolicy, \* boot.toml: the `restart` field of each application in it
          CanFail,    \* applications whose spawn may fail
          NoPid, NoApp, NoEntry, Dangling

Policy == {"never", "on-failure", "always"}
AllCommands == {"run", "kill", "restart", "reload", "update"}

Booted == DOMAIN BootPolicy

ASSUME CommandAssumption == Command \subseteq AllCommands
ASSUME PolicyAssumption  == Booted \subseteq App /\ BootPolicy \in [Booted -> Policy]
ASSUME ThreadAssumption  == Handler \intersect Waiter = {}
ASSUME NullAssumption    == /\ NoPid \notin Pid /\ Dangling \notin Pid
                            /\ NoApp \notin App

Thread == Handler \union Waiter

VARIABLES
  proc,     \* the kernel's view of each pid
  owner,    \* the application a pid runs
  registry, \* AppRegistry: name -> AppState
  inbox,    \* Inbox: name -> the channel messages are sent to
  pc,       \* where each thread is
  job,      \* the application it works on
  pol,      \* the restart policy of its BootEntry
  child,    \* the Child it owns
  victim,   \* the pid a command has read and is about to signal
  code      \* the exit code a waiter has collected

vars == <<proc, owner, registry, inbox, pc, job, pol, child, victim, code>>
kernel == <<proc, owner>>
shared == <<registry, inbox>>

ProcState == {"free", "live", "ok", "fail"}
Entry == [status : {"running", "stopped"}, pid : Pid \union {NoPid}, policy : Policy]

ASSUME EntryAssumption == NoEntry \notin Entry

HandlerControl == {"idle", "signal", "signal_then_spawn", "download",
                   "spawn", "verify", "register", "launch"}
WaiterControl  == {"idle", "wait", "mark", "spawn", "verify", "register", "launch"}

TypeOK ==
  /\ proc \in [Pid -> ProcState]
  /\ owner \in [Pid -> App \union {NoApp}]
  /\ registry \in [App -> Entry \union {NoEntry}]
  /\ inbox \in [App -> Pid \union {NoPid, Dangling}]
  /\ pc \in [Thread -> HandlerControl \union WaiterControl]
  /\ \A h \in Handler : pc[h] \in HandlerControl
  /\ \A w \in Waiter : pc[w] \in WaiterControl
  /\ job \in [Thread -> App \union {NoApp}]
  /\ pol \in [Thread -> Policy]
  /\ child \in [Thread -> Pid \union {NoPid}]
  /\ victim \in [Thread -> Pid \union {NoPid}]
  /\ code \in [Thread -> {"ok", "fail"}]

\* The end of the boot sequence: every entry of boot.toml has its process f[a],
\* its registry entry, its channel and its waiter g[a].
AppOf(h, x) == CHOOSE a \in Booted : h[a] = x
InUse(h, x) == \E a \in Booted : h[a] = x

AfterBoot(f, g) ==
  /\ \A a, b \in Booted : a # b => f[a] # f[b] /\ g[a] # g[b]
  /\ proc = [p \in Pid |-> IF InUse(f, p) THEN "live" ELSE "free"]
  /\ owner = [p \in Pid |-> IF InUse(f, p) THEN AppOf(f, p) ELSE NoApp]
  /\ registry = [a \in App |->
       IF a \in Booted THEN [status |-> "running", pid |-> f[a], policy |-> BootPolicy[a]]
       ELSE NoEntry]
  /\ inbox = [a \in App |-> IF a \in Booted THEN f[a] ELSE NoPid]
  /\ pc = [t \in Thread |-> IF InUse(g, t) THEN "wait" ELSE "idle"]
  /\ job = [t \in Thread |-> IF InUse(g, t) THEN AppOf(g, t) ELSE NoApp]
  /\ pol = [t \in Thread |-> IF InUse(g, t) THEN BootPolicy[AppOf(g, t)] ELSE "never"]
  /\ child = [t \in Thread |-> IF InUse(g, t) THEN f[AppOf(g, t)] ELSE NoPid]
  /\ victim = [t \in Thread |-> NoPid]
  /\ code = [t \in Thread |-> "ok"]

Init == \E f \in [Booted -> Pid], g \in [Booted -> Waiter] : AfterBoot(f, g)
------------------------------------------------------------------------------
(* The kernel.                                                              *)

\* kill(pid, SIGKILL): no effect on a pid whose process has ended.
Killed(p) == [q \in Pid |-> IF q = p /\ proc[q] = "live" THEN "fail" ELSE proc[q]]

\* A process ends by itself.
Exit(p) ==
  /\ proc[p] = "live"
  /\ \E c \in {"ok", "fail"} : proc' = [proc EXCEPT ![p] = c]
  /\ UNCHANGED <<owner, registry, inbox, pc, job, pol, child, victim, code>>

FreePid(p) ==
  /\ proc[p] = "free"
  /\ \A t \in Thread : child[t] # p
  /\ \A a \in App : registry[a] # NoEntry => registry[a].pid # p

------------------------------------------------------------------------------
(* spawn_app.                                                               *)

\* The thread gives up its work: a handler waits for its next command, a
\* waiter ends.
Finish(t) ==
  /\ pc' = [pc EXCEPT ![t] = "idle"]
  /\ job' = [job EXCEPT ![t] = NoApp]
  /\ pol' = [pol EXCEPT ![t] = "never"]
  /\ child' = [child EXCEPT ![t] = NoPid]
  /\ victim' = [victim EXCEPT ![t] = NoPid]
  /\ code' = [code EXCEPT ![t] = "ok"]

\* The manifest does not parse.
SpawnRefused(t) ==
  /\ pc[t] = "spawn" /\ job[t] \in CanFail
  /\ Finish(t)
  /\ UNCHANGED <<kernel, shared>>

\* Mutant of SpawnBegin: a channel already entered under the name is kept.
SpawnKeepsInbox(t) ==
  /\ pc[t] = "spawn"
  /\ \E p \in Pid :
       /\ FreePid(p)
       /\ inbox' = [inbox EXCEPT ![job[t]] = IF @ = NoPid THEN p ELSE @]
       /\ child' = [child EXCEPT ![t] = p]
  /\ pc' = [pc EXCEPT ![t] = "verify"]
  /\ UNCHANGED <<kernel, registry, job, pol, victim, code>>

\* The channel is entered in the inbox under the name, whatever was there.
SpawnBegin(t) ==
  /\ pc[t] = "spawn"
  /\ \E p \in Pid :
       /\ FreePid(p)
       /\ inbox' = [inbox EXCEPT ![job[t]] = p]
       /\ child' = [child EXCEPT ![t] = p]
  /\ pc' = [pc EXCEPT ![t] = "verify"]
  /\ UNCHANGED <<kernel, registry, job, pol, victim, code>>

\* The digest is wrong or wasmtime does not start.
SpawnFails(t) ==
  /\ pc[t] = "verify" /\ job[t] \in CanFail
  /\ inbox' = [inbox EXCEPT ![job[t]] = NoPid]
  /\ Finish(t)
  /\ UNCHANGED <<kernel, registry>>

SpawnProcess(t) ==
  /\ pc[t] = "verify"
  /\ proc' = [proc EXCEPT ![child[t]] = "live"]
  /\ owner' = [owner EXCEPT ![child[t]] = job[t]]
  /\ pc' = [pc EXCEPT ![t] = "register"]
  /\ UNCHANGED <<shared, job, pol, child, victim, code>>

Register(t) ==
  /\ pc[t] = "register"
  /\ registry' = [registry EXCEPT ![job[t]] =
                    [status |-> "running", pid |-> child[t], policy |-> pol[t]]]
  /\ pc' = [pc EXCEPT ![t] = "launch"]
  /\ UNCHANGED <<kernel, inbox, job, pol, child, victim, code>>

\* Mutant of Launch: the thread that executes the command waits itself.
LaunchInPlace(h) ==
  /\ pc[h] = "launch"
  /\ pc' = [pc EXCEPT ![h] = "wait"]
  /\ UNCHANGED <<kernel, shared, job, pol, child, victim, code>>

\* launch_app_threads: the child moves to a new waiter thread.
Launch(h) ==
  /\ pc[h] = "launch"
  /\ \E w \in Waiter :
       /\ pc[w] = "idle"
       /\ pc' = [pc EXCEPT ![w] = "wait", ![h] = "idle"]
       /\ job' = [job EXCEPT ![w] = job[h], ![h] = NoApp]
       /\ pol' = [pol EXCEPT ![w] = pol[h], ![h] = "never"]
       /\ child' = [child EXCEPT ![w] = child[h], ![h] = NoPid]
       /\ victim' = [victim EXCEPT ![h] = NoPid]
  /\ UNCHANGED <<kernel, shared, code>>

Spawn(t) ==
  SpawnRefused(t) \/ SpawnBegin(t) \/ SpawnFails(t) \/ SpawnProcess(t) \/ Register(t)
------------------------------------------------------------------------------
(* wait_app.                                                                *)

\* Mutant of ShouldRestart: a clean exit is never followed by a restart.
RestartsFailuresOnly(policy, c) == policy # "never" /\ c # "ok"

ShouldRestart(policy, c) ==
  policy = "always" \/ (policy = "on-failure" /\ c # "ok")

\* child.wait() returns; the channel of the dead process leads nowhere.
Reap(w) ==
  /\ pc[w] = "wait"
  /\ proc[child[w]] \in {"ok", "fail"}
  /\ code' = [code EXCEPT ![w] = proc[child[w]]]
  /\ proc' = [proc EXCEPT ![child[w]] = "free"]
  /\ owner' = [owner EXCEPT ![child[w]] = NoApp]
  /\ inbox' = [a \in App |-> IF inbox[a] = child[w] THEN Dangling ELSE inbox[a]]
  /\ pc' = [pc EXCEPT ![w] = "mark"]
  /\ UNCHANGED <<registry, job, pol, child, victim>>

\* The entry found under the name becomes stopped, and the waiter decides
\* whether to start the application again.
Stopped(a) ==
  IF registry[a] = NoEntry THEN registry
  ELSE [registry EXCEPT ![a].status = "stopped", ![a].pid = NoPid]

MarkAndRestart(w) ==
  /\ pc[w] = "mark"
  /\ ShouldRestart(pol[w], code[w])
  /\ registry' = Stopped(job[w])
  /\ pc' = [pc EXCEPT ![w] = "spawn"]
  /\ child' = [child EXCEPT ![w] = NoPid]
  /\ code' = [code EXCEPT ![w] = "ok"]
  /\ UNCHANGED <<kernel, inbox, job, pol, victim>>

\* Mutant of MarkAndEnd: the entry is left as it was.
EndUnmarked(w) ==
  /\ pc[w] = "mark"
  /\ ~ShouldRestart(pol[w], code[w])
  /\ Finish(w)
  /\ UNCHANGED <<kernel, shared>>

MarkAndEnd(w) ==
  /\ pc[w] = "mark"
  /\ ~ShouldRestart(pol[w], code[w])
  /\ registry' = Stopped(job[w])
  /\ Finish(w)
  /\ UNCHANGED <<kernel, inbox>>

\* Mutant of Resume: the loop ends after the respawn.
ResumeEnds(w) ==
  /\ pc[w] = "launch"
  /\ Finish(w)
  /\ UNCHANGED <<kernel, shared>>

\* Mutant of Resume: the entry is marked only now.
ResumeMarks(w) ==
  /\ pc[w] = "launch"
  /\ registry' = Stopped(job[w])
  /\ pc' = [pc EXCEPT ![w] = "wait"]
  /\ UNCHANGED <<kernel, inbox, job, pol, child, victim, code>>

\* The waiter's own loop takes the new child.
Resume(w) ==
  /\ pc[w] = "launch"
  /\ pc' = [pc EXCEPT ![w] = "wait"]
  /\ UNCHANGED <<kernel, shared, job, pol, child, victim, code>>

------------------------------------------------------------------------------
(* Commands and the watchdog.                                               *)

Begin(h, cmd, a, next, policy, pid) ==
  /\ pc[h] = "idle"
  /\ cmd \in Command
  /\ pc' = [pc EXCEPT ![h] = next]
  /\ job' = [job EXCEPT ![h] = a]
  /\ pol' = [pol EXCEPT ![h] = policy]
  /\ victim' = [victim EXCEPT ![h] = pid]
  /\ UNCHANGED <<kernel, shared, child, code>>

\* run <manifest>: no look at the registry, and never restarted.
Run(h, a) == Begin(h, "run", a, "spawn", "never", NoPid)

\* kill <app> and the close button.
Kill(h, a) ==
  /\ registry[a] # NoEntry /\ registry[a].pid # NoPid
  /\ Begin(h, "kill", a, "signal", "never", registry[a].pid)

Restart(h, a) ==
  /\ registry[a] # NoEntry
  /\ Begin(h, "restart", a, "signal_then_spawn", registry[a].policy, registry[a].pid)

\* reload: an entry of boot.toml that is not running.
Reload(h, a) ==
  /\ a \in Booted
  /\ registry[a] = NoEntry \/ registry[a].status # "running"
  /\ Begin(h, "reload", a, "spawn", BootPolicy[a], NoPid)

Update(h, a) ==
  /\ registry[a] # NoEntry
  /\ Begin(h, "update", a, "download", registry[a].policy, NoPid)

\* Mutant of Signal: kill starts the application again.
SignalRespawns(h) ==
  /\ pc[h] = "signal"
  /\ proc' = Killed(victim[h])
  /\ pc' = [pc EXCEPT ![h] = "spawn"]
  /\ victim' = [victim EXCEPT ![h] = NoPid]
  /\ UNCHANGED <<owner, shared, job, pol, child, code>>

Signal(h) ==
  /\ pc[h] = "signal"
  /\ proc' = Killed(victim[h])
  /\ Finish(h)
  /\ UNCHANGED <<owner, shared>>

SignalThenSpawn(h) ==
  /\ pc[h] = "signal_then_spawn"
  /\ proc' = Killed(victim[h])
  /\ pc' = [pc EXCEPT ![h] = "spawn"]
  /\ victim' = [victim EXCEPT ![h] = NoPid]
  /\ UNCHANGED <<owner, shared, job, pol, child, code>>

\* The download, the digest or the installation of the new binary fails.
UpdateFails(h) ==
  /\ pc[h] = "download"
  /\ Finish(h)
  /\ UNCHANGED <<kernel, shared>>

\* The old process is signalled under the registry's lock.
UpdateKill(h) ==
  /\ pc[h] = "download"
  /\ proc' = IF registry[job[h]] = NoEntry THEN proc ELSE Killed(registry[job[h]].pid)
  /\ pc' = [pc EXCEPT ![h] = "spawn"]
  /\ UNCHANGED <<owner, shared, job, pol, child, victim, code>>

\* The watchdog signals under the registry's lock whoever has been silent.
WatchdogKill(a) ==
  /\ registry[a] # NoEntry /\ registry[a].pid # NoPid
  /\ proc[registry[a].pid] = "live"
  /\ proc' = Killed(registry[a].pid)
  /\ UNCHANGED <<owner, registry, inbox, pc, job, pol, child, victim, code>>
------------------------------------------------------------------------------
HandlerStep(h) ==
  Signal(h) \/ SignalThenSpawn(h) \/ UpdateFails(h) \/ UpdateKill(h) \/ Spawn(h) \/ Launch(h)

WaiterStep(w) ==
  Reap(w) \/ MarkAndRestart(w) \/ MarkAndEnd(w) \/ Spawn(w) \/ Resume(w)

Issue(h, a) ==
  Run(h, a) \/ Kill(h, a) \/ Restart(h, a) \/ Reload(h, a) \/ Update(h, a)

Next ==
  \/ \E h \in Handler : HandlerStep(h) \/ \E a \in App : Issue(h, a)
  \/ \E w \in Waiter : WaiterStep(w)
  \/ \E p \in Pid : Exit(p)
  \/ \E a \in App : WatchdogKill(a)

Spec == Init /\ [][Next]_vars

\* Threads that hold no lock are scheduled again.  Nobody has to send a
\* command and no process has to end.
FairSpec ==
  /\ Spec
  /\ \A h \in Handler : WF_vars(HandlerStep(h))
  /\ \A w \in Waiter : WF_vars(WaiterStep(w))
------------------------------------------------------------------------------
(* Safety.                                                                  *)

\* A process is the child of exactly one thread, which has yet to wait for
\* it, from cmd.spawn() to child.wait(): no zombie is left behind and no exit
\* is handled twice, whatever commands and restarts overlap.
Owned ==
  \A p \in Pid : proc[p] # "free" =>
    \E t \in Thread :
      /\ child[t] = p /\ job[t] = owner[p]
      /\ pc[t] \in {"register", "launch", "wait"}
      /\ \A u \in Thread : child[u] = p => u = t

\* An entry that says "running" names a process whose exit some waiter of that
\* application has still to handle: no dead application is shown as running
\* for good, although waiters find entries by name only.
RunningIsWatched ==
  \A a \in App : registry[a] # NoEntry /\ registry[a].status = "running" =>
    \E t \in Thread :
      /\ child[t] = registry[a].pid /\ job[t] = a
      /\ pc[t] \in {"launch", "wait", "mark"}

Live(a) == {p \in Pid : proc[p] = "live" /\ owner[p] = a}

\* No thread is in the middle of anything and every exit has been handled.
Quiet ==
  /\ \A t \in Thread : pc[t] \in {"idle", "wait"}
  /\ \A p \in Pid : proc[p] \in {"free", "live"}

\* An application never has two processes.
OneInstance == \A a \in App : \A p, q \in Live(a) : p = q

\* Nor, after a restart, once the old process is gone.
QuietOneInstance == Quiet => OneInstance

\* When nothing is in flight ps shows a running application as running, with
\* its pid ...
StatusAgrees ==
  Quiet => \A a \in App : \A p \in Live(a) :
             registry[a] # NoEntry /\ registry[a].status = "running" /\ registry[a].pid = p

\* ... and messages sent to it reach it.
InboxAgrees ==
  Quiet => \A a \in App : Live(a) # {} => inbox[a] \in Live(a)

(* Liveness.                                                                *)

\* The registry shows a dead process as running only for a while.
ShowsDead(a) ==
  registry[a] # NoEntry /\ registry[a].status = "running" /\ proc[registry[a].pid] # "live"

DeadIsNoticed == \A a \in App : ShowsDead(a) ~> ~ShowsDead(a)

\* An application with policy "always" whose process has ended runs again,
\* unless it cannot be spawned (one failure and the waiter gives up).
AlwaysRestarts ==
  \A a \in Booted \ CanFail :
    BootPolicy[a] = "always" => []<>(Live(a) # {})
==============================================================================
