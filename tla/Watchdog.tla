------------------------------- MODULE Watchdog -------------------------------
(***************************************************************************)
(* The two threads that kill applications on their own account: the        *)
(* watchdog (app_threads.rs), which looks once a second for applications   *)
(* whose output has ceased, and the memory pressure monitor (memory.rs),   *)
(* which kills the background application that was restarted most often.   *)
(* Both go by what is registered under a name: the age of the last output, *)
(* the restart count and the pid.  A restart replaces all three, and the   *)
(* waiter enters the restart count only after the new state is registered. *)
(*                                                                         *)
(* Time is counted in seconds; a pass may come late but there is at most   *)
(* one per second.  A pass holds the registry, so it is one step.  Only    *)
(* the reader of the instance the state belongs to refreshes last_output;  *)
(* last lines of an earlier instance refresh a state nobody looks at.      *)
(***************************************************************************)
EXTENDS Integers, FiniteSets, FiniteSetsExt

CONSTANTS App,
          watchdog_secs,  \* App -> seconds of silence allowed, 0 = no watchdog
          Background,     \* applications with `background = true`
          MaxBackoff,     \* cap of the backoff (300)
          MaxRestart,     \* bound: restarts of an application
          MaxUnread       \* bound: lines an instance is ahead of its reader

ASSUME SecsAssumption == watchdog_secs \in [App -> Nat]
ASSUME BackgroundAssumption == Background \subseteq App
ASSUME BoundAssumption == MaxBackoff \in Nat /\ MaxRestart \in Nat /\ MaxUnread \in Nat

VARIABLES
    entry,    \* App -> what is registered under its name
    process,  \* App -> its latest process
    waiter,   \* App -> what its waiter does, and its own count of restarts
    due,      \* a second has passed since the last pass of the watchdog
    pressure  \* level the monitor has seen last
vars == <<entry, process, waiter, due, pressure>>

(* age and quiet stop counting at the limit.  quiet is history: seconds    *)
(* since the process started or printed; heard: its reader has not broken  *)
(* off.                                                                    *)
Fresh == [running |-> TRUE, age |-> 0, backoff |-> 0, restart_count |-> 0]
Born  == [alive |-> TRUE, doomed |-> FALSE, unread |-> 0, heard |-> TRUE, quiet |-> 0]

Init == /\ entry = [a \in App |-> Fresh]
        /\ process = [a \in App |-> Born]
        /\ waiter = [a \in App |-> [pc |-> "wait", restart_count |-> 0]]
        /\ due = FALSE
        /\ pressure = "normal"

-----------------------------------------------------------------------------
(* Applications and their readers                                          *)

PrintLine(a) ==
    /\ process[a].alive /\ process[a].heard /\ process[a].unread < MaxUnread
    /\ process' = [process EXCEPT ![a].unread = @ + 1, ![a].quiet = 0]
    /\ UNCHANGED <<entry, waiter, due, pressure>>

(* The reader thread exists once the waiter is back at its wait.           *)
ReadLine(a) ==
    /\ process[a].unread > 0 /\ process[a].heard /\ waiter[a].pc \in {"wait", "gone"}
    /\ process' = [process EXCEPT ![a].unread = @ - 1]
    /\ entry' = [entry EXCEPT ![a].age = 0]
    /\ UNCHANGED <<waiter, due, pressure>>

(* A line that is not UTF-8 ends the reader; the process lives on, but     *)
(* nothing it prints is taken any more.                                    *)
ReaderBreaks(a) ==
    /\ process[a].unread > 0 /\ process[a].heard /\ waiter[a].pc \in {"wait", "gone"}
    /\ process' = [process EXCEPT ![a].heard = FALSE]
    /\ UNCHANGED <<entry, waiter, due, pressure>>

Exit(a) ==
    /\ process[a].alive
    /\ process' = [process EXCEPT ![a].alive = FALSE]
    /\ UNCHANGED <<entry, waiter, due, pressure>>

-----------------------------------------------------------------------------
(* wait_app                                                                *)

Notice(a) ==
    /\ waiter[a].pc = "wait" /\ ~process[a].alive
    /\ entry' = [entry EXCEPT ![a].running = FALSE]
    /\ waiter' = [waiter EXCEPT ![a].pc = "decide"]
    /\ UNCHANGED <<process, due, pressure>>

GiveUp(a) ==
    /\ waiter[a].pc = "decide"
    /\ waiter' = [waiter EXCEPT ![a].pc = "gone"]
    /\ UNCHANGED <<entry, process, due, pressure>>

\* Mutant: the age of the last output is carried over.
SpawnKeepsAge(a) ==
    /\ waiter[a].pc = "decide" /\ waiter[a].restart_count < MaxRestart
    /\ entry' = [entry EXCEPT ![a] = [Fresh EXCEPT !.age = entry[a].age]]
    /\ process' = [process EXCEPT ![a] = Born]
    /\ waiter' = [waiter EXCEPT ![a].pc = "count", ![a].restart_count = @ + 1]
    /\ UNCHANGED <<due, pressure>>

(* spawn_app registers a fresh state: restart count 0, no backoff.         *)
Spawn(a) ==
    /\ waiter[a].pc = "decide" /\ waiter[a].restart_count < MaxRestart
    /\ entry' = [entry EXCEPT ![a] = Fresh]
    /\ process' = [process EXCEPT ![a] = Born]
    /\ waiter' = [waiter EXCEPT ![a].pc = "count", ![a].restart_count = @ + 1]
    /\ UNCHANGED <<due, pressure>>

\* Mutant: the count of the state is increased, which the spawn has reset.
EnterCountIncrements(a) ==
    /\ waiter[a].pc = "count"
    /\ entry' = [entry EXCEPT ![a].restart_count = @ + 1]
    /\ waiter' = [waiter EXCEPT ![a].pc = "start_threads"]
    /\ UNCHANGED <<process, due, pressure>>

EnterCount(a) ==
    /\ waiter[a].pc = "count"
    /\ entry' = [entry EXCEPT ![a].restart_count = waiter[a].restart_count]
    /\ waiter' = [waiter EXCEPT ![a].pc = "start_threads"]
    /\ UNCHANGED <<process, due, pressure>>

(* The reader thread refreshes last_output when it starts.                 *)
StartThreads(a) ==
    /\ waiter[a].pc = "start_threads"
    /\ entry' = [entry EXCEPT ![a].age = 0]
    /\ waiter' = [waiter EXCEPT ![a].pc = "wait"]
    /\ UNCHANGED <<process, due, pressure>>

-----------------------------------------------------------------------------
(* The watchdog                                                            *)

Older(seconds, a) == IF seconds < watchdog_secs[a] THEN seconds + 1 ELSE seconds

Second ==
    /\ due' = TRUE
    /\ entry' = [a \in App |-> [entry[a] EXCEPT !.age = Older(@, a)]]
    /\ process' = [a \in App |-> [process[a] EXCEPT !.quiet = Older(@, a)]]
    /\ UNCHANGED <<waiter, pressure>>

\* Mutant: without the cap.
next_backoff_uncapped(a) == watchdog_secs[a] * 2 ^ entry[a].restart_count

(* watchdog_next_backoff: doubled with every restart.                      *)
next_backoff(a) ==
    LET doublings == IF entry[a].restart_count < 8 THEN entry[a].restart_count ELSE 8
        delay     == watchdog_secs[a] * 2 ^ doublings
    IN  IF delay < MaxBackoff THEN delay ELSE MaxBackoff

Watched(a)  == watchdog_secs[a] > 0 /\ entry[a].backoff = 0
Silent(a)   == Watched(a) /\ entry[a].age >= watchdog_secs[a]

\* Mutant: the pass ends at an application without a watchdog.
PassEnds ==
    /\ due
    /\ due' = FALSE
    /\ UNCHANGED <<entry, process, waiter, pressure>>

(* run_watchdog: a state in its backoff is skipped, a silent one is        *)
(* refreshed and put into backoff whether or not it has a pid to kill.     *)
Pass ==
    /\ due
    /\ due' = FALSE
    /\ entry' = [a \in App |->
          IF Silent(a) THEN [entry[a] EXCEPT !.backoff = next_backoff(a), !.age = 0]
          ELSE IF Watched(a) \/ watchdog_secs[a] = 0 THEN entry[a]
          ELSE [entry[a] EXCEPT !.backoff = @ - 1]]
    /\ process' = [a \in App |->
          [process[a] EXCEPT !.doomed = @ \/ (Silent(a) /\ entry[a].running /\ process[a].alive)]]
    /\ UNCHANGED <<waiter, pressure>>

-----------------------------------------------------------------------------
(* The memory pressure monitor                                             *)

Candidate == {a \in Background : entry[a].running}

\* Mutant: the application restarted least often.
VictimMostStable(a) ==
    a \in Candidate /\ \A b \in Candidate : entry[a].restart_count <= entry[b].restart_count

(* kill_lowest_priority_bg_app; ties are broken by name, left open here.   *)
Victim(a) ==
    a \in Candidate /\ \A b \in Candidate : entry[a].restart_count >= entry[b].restart_count

(* It acts on a change of level only.                                      *)
MonitorPass ==
    /\ pressure' \in {"normal", "warning", "critical"} \ {pressure}
    /\ IF pressure' = "critical" /\ Candidate # {}
       THEN \E a \in Candidate :
              Victim(a) /\ process' = [process EXCEPT ![a].doomed = @ \/ process[a].alive]
       ELSE UNCHANGED process
    /\ UNCHANGED <<entry, waiter, due>>

Supervise(a) == Notice(a) \/ GiveUp(a) \/ Spawn(a) \/ EnterCount(a) \/ StartThreads(a)

Next == \/ \E a \in App : PrintLine(a) \/ ReadLine(a) \/ ReaderBreaks(a) \/ Exit(a) \/ Supervise(a)
        \/ Second \/ Pass \/ MonitorPass

(* Time passes, threads that can run do run, and SIGKILL works.            *)
Fairness == /\ WF_vars(Second) /\ WF_vars(Pass)
            /\ \A a \in App : WF_vars(Supervise(a)) /\ WF_vars(process[a].doomed /\ Exit(a))

Spec == Init /\ [][Next]_vars /\ Fairness

-----------------------------------------------------------------------------
(* Ages stay below the limits, the backoff below its cap, and an entry     *)
(* that is not running has no living process.                              *)
TypeOK ==
    /\ due \in BOOLEAN /\ pressure \in {"normal", "warning", "critical"}
    /\ \A a \in App :
          /\ entry[a].age \in 0 .. watchdog_secs[a] /\ process[a].quiet \in 0 .. watchdog_secs[a]
          /\ entry[a].backoff \in 0 .. MaxBackoff
          /\ process[a].unread \in 0 .. MaxUnread
          /\ waiter[a].pc \in {"wait", "decide", "count", "start_threads", "gone"}
          /\ ~entry[a].running => ~process[a].alive

(* Nobody is killed for another's silence: the process the watchdog kills  *)
(* has itself printed nothing for watchdog_secs seconds, unless its reader *)
(* is behind with what it did print, or broke off at it.                   *)
KilledForItsSilence ==
    [][Pass => \A a \in App : process'[a].doomed /\ ~process[a].doomed =>
          process[a].quiet >= watchdog_secs[a] \/ process[a].unread > 0]_vars

(* A process that stays silent is killed, whatever the backoff, the other  *)
(* applications and the restarts do.                                       *)
SilentIsKilled ==
    \A a \in App : watchdog_secs[a] > 0 =>
        []<>(~process[a].alive) \/ []<><<PrintLine(a) \/ ReadLine(a)>>_vars

(* What ps shows and both threads go by is the number of restarts the      *)
(* waiter has made, but for the time between the registration of the new   *)
(* state and the count: then an application passes for one never restarted.*)
CountAgrees ==
    \A a \in App :
        entry[a].restart_count = IF waiter[a].pc = "count" THEN 0 ELSE waiter[a].restart_count

(* Under critical pressure the background application killed was restarted *)
(* at least as often as any other that runs, except one whose restart is   *)
(* registered and not counted yet: only that one can be spared wrongly.    *)
LeastStableFirst ==
    [][MonitorPass =>
          \A a, b \in Background :
             process'[a].doomed /\ ~process[a].doomed /\ entry[b].running /\ waiter[b].pc # "count"
                => waiter[a].restart_count >= waiter[b].restart_count]_vars
===============================================================================
