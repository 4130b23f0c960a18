---------------------------- MODULE WatchdogProofs ----------------------------
(***************************************************************************)
(* Proofs about Watchdog, for any number of applications, limits and       *)
(* restarts.  Both killers go by what is registered under a name: the      *)
(* proofs relate it to the process it is about and to the waiter.          *)
(***************************************************************************)
EXTENDS Watchdog, TLAPS

Entries   == [running : BOOLEAN, age : Nat, backoff : 0 .. MaxBackoff, restart_count : Nat]
Processes == [alive : BOOLEAN, doomed : BOOLEAN, unread : 0 .. MaxUnread,
              heard : BOOLEAN, quiet : Nat]
Waiters   == [pc : {"wait", "decide", "count", "start_threads", "gone"}, restart_count : Nat]

(* What relates the entry of an application, its process and its waiter:   *)
(* the age of a process whose output has all been read is not more than    *)
(* the time it has been quiet; an entry is taken for stopped only after    *)
(* its process; and the restart count is the waiter's but for the time     *)
(* between registering a state and entering the count, when it is zero.    *)
Agree(e, p, w, secs) ==
    /\ e.age <= secs /\ p.quiet <= secs
    /\ p.unread = 0 => e.age <= p.quiet
    /\ ~e.running => ~p.alive
    /\ w.pc = "decide" => ~p.alive
    /\ e.restart_count = IF w.pc = "count" THEN 0 ELSE w.restart_count

IInv ==
    /\ entry \in [App -> Entries]
    /\ process \in [App -> Processes]
    /\ waiter \in [App -> Waiters]
    /\ due \in BOOLEAN /\ pressure \in {"normal", "warning", "critical"}
    /\ \A a \in App : Agree(entry[a], process[a], waiter[a], watchdog_secs[a])

LEMMA NewbornAgrees ==
  ASSUME NEW secs \in Nat
  PROVE  /\ Fresh \in Entries /\ Born \in Processes
         /\ Fresh.age = 0 /\ Fresh.restart_count = 0 /\ Fresh.running
         /\ Born.quiet = 0
         /\ \A w : w.pc = "count" => Agree(Fresh, Born, w, secs)
         /\ \A w : w.pc = "wait" /\ w.restart_count = 0 => Agree(Fresh, Born, w, secs)
  BY BoundAssumption DEF Fresh, Born, Entries, Processes, Agree

LEMMA InitInv == Init => IInv
<1> DEFINE w == [pc |-> "wait", restart_count |-> 0]
<1>1. w \in Waiters
  BY DEF Waiters
<1>2. \A a \in App : Agree(Fresh, Born, w, watchdog_secs[a])
  BY <1>1, NewbornAgrees, SecsAssumption
<1>3. App = {} \/ (Fresh \in Entries /\ Born \in Processes)
  BY NewbornAgrees
<1> HIDE DEF w
<1>4. Init => /\ entry = [a \in App |-> Fresh] /\ process = [a \in App |-> Born]
              /\ waiter = [a \in App |-> w] /\ due = FALSE /\ pressure = "normal"
  BY DEF Init, w
<1> QED BY <1>1, <1>2, <1>3, <1>4 DEF IInv

-----------------------------------------------------------------------------
(* The backoff                                                             *)

LEMMA PowerOfTwo == ASSUME NEW k \in 0 .. 8 PROVE 2 ^ k \in Nat
<1>1. 2 ^ 0 \in Nat /\ 2 ^ 1 \in Nat /\ 2 ^ 2 \in Nat /\ 2 ^ 3 \in Nat /\ 2 ^ 4 \in Nat
  OBVIOUS
<1>2. 2 ^ 5 \in Nat /\ 2 ^ 6 \in Nat /\ 2 ^ 7 \in Nat /\ 2 ^ 8 \in Nat
  OBVIOUS
<1>3. \/ k = 0 \/ k = 1 \/ k = 2 \/ k = 3 \/ k = 4
      \/ k = 5 \/ k = 6 \/ k = 7 \/ k = 8
  OBVIOUS
<1> QED BY <1>1, <1>2, <1>3, Zenon

LEMMA ProductOfNats == ASSUME NEW m \in Nat, NEW n \in Nat PROVE m * n \in Nat
  OBVIOUS

LEMMA BackoffCapped ==
  ASSUME IInv, NEW a \in App
  PROVE  next_backoff(a) \in 0 .. MaxBackoff
<1> DEFINE k     == IF entry[a].restart_count < 8 THEN entry[a].restart_count ELSE 8
           delay == watchdog_secs[a] * 2 ^ k
<1>1. k \in 0 .. 8
  <2>1. entry[a].restart_count \in Nat
    BY DEF IInv, Entries
  <2> QED BY <2>1
<1> HIDE DEF k
<1>2. delay \in Nat
  BY <1>1, PowerOfTwo, ProductOfNats, SecsAssumption
<1> HIDE DEF delay
<1>3. (IF delay < MaxBackoff THEN delay ELSE MaxBackoff) \in 0 .. MaxBackoff
  BY <1>2, BoundAssumption
<1> QED BY <1>3 DEF next_backoff, delay, k

-----------------------------------------------------------------------------
(* The steps of one application: the others keep what they have.           *)

LEMMA OneApp ==
  ASSUME IInv, NEW a \in App,
         NEW e \in Entries, NEW p \in Processes, NEW w \in Waiters,
         Agree(e, p, w, watchdog_secs[a]),
         entry' = [entry EXCEPT ![a] = e],
         process' = [process EXCEPT ![a] = p],
         waiter' = [waiter EXCEPT ![a] = w],
         due' = due, pressure' = pressure
  PROVE  IInv'
  BY DEF IInv

LEMMA AppStep ==
  ASSUME IInv, NEW a \in App, PrintLine(a) \/ ReadLine(a) \/ ReaderBreaks(a)
                                  \/ Exit(a) \/ Supervise(a)
  PROVE  IInv'
<1>1. /\ entry[a] \in Entries /\ process[a] \in Processes /\ waiter[a] \in Waiters
      /\ Agree(entry[a], process[a], waiter[a], watchdog_secs[a])
      /\ entry = [entry EXCEPT ![a] = entry[a]]
      /\ process = [process EXCEPT ![a] = process[a]]
      /\ waiter = [waiter EXCEPT ![a] = waiter[a]]
      /\ watchdog_secs[a] \in Nat
  BY SecsAssumption DEF IInv
<1> DEFINE NewEntry(e)   == entry' = [entry EXCEPT ![a] = e]
           NewProcess(p) == process' = [process EXCEPT ![a] = p]
           NewWaiter(w)  == waiter' = [waiter EXCEPT ![a] = w]
<1>2. CASE PrintLine(a)
  <2> DEFINE n == process[a].unread + 1
             p == [process[a] EXCEPT !.unread = n, !.quiet = 0]
  <2>1. NewProcess(p) /\ NewEntry(entry[a]) /\ NewWaiter(waiter[a])
        /\ due' = due /\ pressure' = pressure
    BY <1>1, <1>2 DEF PrintLine
  <2>2. n \in 0 .. MaxUnread /\ n # 0
    BY <1>1, <1>2, BoundAssumption DEF PrintLine, Processes
  <2> HIDE DEF n
  <2>3. p \in Processes /\ p.unread # 0 /\ p.quiet = 0 /\ p.alive = process[a].alive
    BY <1>1, <2>2 DEF Processes
  <2>4. Agree(entry[a], p, waiter[a], watchdog_secs[a])
    BY <1>1, <2>3 DEF Agree
  <2> HIDE DEF p
  <2> QED BY <1>1, <2>1, <2>3, <2>4, OneApp
<1>3. CASE ReadLine(a)
  <2> DEFINE p == [process[a] EXCEPT !.unread = @ - 1]
             e == [entry[a] EXCEPT !.age = 0]
  <2>1. NewProcess(p) /\ NewEntry(e) /\ NewWaiter(waiter[a])
        /\ due' = due /\ pressure' = pressure
    BY <1>1, <1>3 DEF ReadLine
  <2>2. p \in Processes /\ e \in Entries /\ Agree(e, p, waiter[a], watchdog_secs[a])
    BY <1>1, <1>3, BoundAssumption DEF ReadLine, Processes, Entries, Agree
  <2> HIDE DEF p, e
  <2> QED BY <1>1, <2>1, <2>2, OneApp
<1>4. CASE Exit(a)
  <2> DEFINE p == [process[a] EXCEPT !.alive = FALSE]
  <2>1. NewProcess(p) /\ NewEntry(entry[a]) /\ NewWaiter(waiter[a])
        /\ due' = due /\ pressure' = pressure
    BY <1>1, <1>4 DEF Exit
  <2>2. p \in Processes /\ Agree(entry[a], p, waiter[a], watchdog_secs[a])
    BY <1>1 DEF Processes, Agree
  <2> HIDE DEF p
  <2> QED BY <1>1, <2>1, <2>2, OneApp
<1>4a. CASE ReaderBreaks(a)
  <2> DEFINE p == [process[a] EXCEPT !.heard = FALSE]
  <2>1. NewProcess(p) /\ NewEntry(entry[a]) /\ NewWaiter(waiter[a])
        /\ due' = due /\ pressure' = pressure
    BY <1>1, <1>4a DEF ReaderBreaks
  <2>2. p \in Processes /\ Agree(entry[a], p, waiter[a], watchdog_secs[a])
    BY <1>1 DEF Processes, Agree
  <2> HIDE DEF p
  <2> QED BY <1>1, <2>1, <2>2, OneApp
<1>5. CASE Notice(a)
  <2> DEFINE e == [entry[a] EXCEPT !.running = FALSE]
             w == [waiter[a] EXCEPT !.pc = "decide"]
  <2>1. NewEntry(e) /\ NewWaiter(w) /\ NewProcess(process[a])
        /\ due' = due /\ pressure' = pressure
    BY <1>1, <1>5 DEF Notice
  <2>2. e \in Entries /\ w \in Waiters /\ Agree(e, process[a], w, watchdog_secs[a])
    BY <1>1, <1>5 DEF Notice, Entries, Waiters, Agree
  <2> HIDE DEF e, w
  <2> QED BY <1>1, <2>1, <2>2, OneApp
<1>6. CASE GiveUp(a)
  <2> DEFINE w == [waiter[a] EXCEPT !.pc = "gone"]
  <2>1. NewEntry(entry[a]) /\ NewWaiter(w) /\ NewProcess(process[a])
        /\ due' = due /\ pressure' = pressure
    BY <1>1, <1>6 DEF GiveUp
  <2>2. w \in Waiters /\ Agree(entry[a], process[a], w, watchdog_secs[a])
    BY <1>1, <1>6 DEF GiveUp, Waiters, Agree
  <2> HIDE DEF w
  <2> QED BY <1>1, <2>1, <2>2, OneApp
<1>7. CASE Spawn(a)
  <2> DEFINE n == waiter[a].restart_count + 1
             w == [waiter[a] EXCEPT !.pc = "count", !.restart_count = n]
  <2>1. NewEntry(Fresh) /\ NewWaiter(w) /\ NewProcess(Born)
        /\ due' = due /\ pressure' = pressure
    BY <1>1, <1>7 DEF Spawn
  <2>2. n \in Nat /\ waiter[a].restart_count \in Nat
    BY <1>1 DEF Waiters
  <2> HIDE DEF n
  <2>3. w \in Waiters /\ w.pc = "count"
    BY <1>1, <2>2 DEF Waiters
  <2> HIDE DEF w
  <2>4. watchdog_secs[a] \in Nat
    BY <1>1
  <2>5. Fresh \in Entries /\ Born \in Processes
    BY <2>4, NewbornAgrees
  <2>6. Agree(Fresh, Born, w, watchdog_secs[a])
    BY <2>3, <2>4, NewbornAgrees, Zenon
  <2> QED BY <1>1, <2>1, <2>3, <2>5, <2>6, OneApp
<1>8. CASE EnterCount(a)
  <2> DEFINE e == [entry[a] EXCEPT !.restart_count = waiter[a].restart_count]
             w == [waiter[a] EXCEPT !.pc = "start_threads"]
  <2>1. NewEntry(e) /\ NewWaiter(w) /\ NewProcess(process[a])
        /\ due' = due /\ pressure' = pressure
    BY <1>1, <1>8 DEF EnterCount
  <2>2. e \in Entries /\ w \in Waiters /\ Agree(e, process[a], w, watchdog_secs[a])
    BY <1>1 DEF Entries, Waiters, Agree
  <2> HIDE DEF e, w
  <2> QED BY <1>1, <2>1, <2>2, OneApp
<1>9. CASE StartThreads(a)
  <2> DEFINE e == [entry[a] EXCEPT !.age = 0]
             w == [waiter[a] EXCEPT !.pc = "wait"]
  <2>1. NewEntry(e) /\ NewWaiter(w) /\ NewProcess(process[a])
        /\ due' = due /\ pressure' = pressure
    BY <1>1, <1>9 DEF StartThreads
  <2>2. e \in Entries /\ w \in Waiters /\ Agree(e, process[a], w, watchdog_secs[a])
    BY <1>1, <1>9 DEF StartThreads, Entries, Waiters, Processes, Agree
  <2> HIDE DEF e, w
  <2> QED BY <1>1, <2>1, <2>2, OneApp
<1> QED
  BY <1>2, <1>3, <1>4, <1>4a, <1>5, <1>6, <1>7, <1>8, <1>9 DEF Supervise

-----------------------------------------------------------------------------
(* Time and the two killers: what happens to each application.             *)

LEMMA SecondStep == ASSUME IInv, Second PROVE IInv'
<1>1. ASSUME NEW a \in App
      PROVE  /\ [entry[a] EXCEPT !.age = Older(@, a)] \in Entries
             /\ [process[a] EXCEPT !.quiet = Older(@, a)] \in Processes
             /\ Agree([entry[a] EXCEPT !.age = Older(@, a)],
                      [process[a] EXCEPT !.quiet = Older(@, a)], waiter[a], watchdog_secs[a])
  BY SecsAssumption DEF IInv, Entries, Processes, Agree, Older
<1> QED BY <1>1 DEF Second, IInv

LEMMA PassStep == ASSUME IInv, Pass PROVE IInv'
<1>1. ASSUME NEW a \in App
      PROVE  /\ entry'[a] \in Entries /\ process'[a] \in Processes
             /\ Agree(entry'[a], process'[a], waiter[a], watchdog_secs[a])
  <2>0. /\ entry[a] \in Entries /\ process[a] \in Processes /\ watchdog_secs[a] \in Nat
        /\ Agree(entry[a], process[a], waiter[a], watchdog_secs[a])
    BY SecsAssumption DEF IInv
  <2> DEFINE d == process[a].doomed \/ (Silent(a) /\ entry[a].running /\ process[a].alive)
             p == [process[a] EXCEPT !.doomed = d]
  <2>1. process'[a] = p
    BY DEF Pass
  <2>2. p \in Processes /\ p.unread = process[a].unread /\ p.quiet = process[a].quiet
        /\ p.alive = process[a].alive
    BY <2>0 DEF Processes
  <2>3. CASE Silent(a)
    <3> DEFINE e == [entry[a] EXCEPT !.backoff = next_backoff(a), !.age = 0]
    <3>1. entry'[a] = e
      BY <2>3 DEF Pass
    <3>2. /\ e \in Entries /\ e.age = 0 /\ e.running = entry[a].running
          /\ e.restart_count = entry[a].restart_count
      BY <2>0, BackoffCapped DEF Entries
    <3>3. p.quiet \in Nat
      BY <2>2 DEF Processes
    <3> HIDE DEF e, p
    <3>4. Agree(e, p, waiter[a], watchdog_secs[a])
      BY <2>0, <2>2, <3>2, <3>3 DEF Agree
    <3> QED BY <2>1, <2>2, <3>1, <3>2, <3>4
  <2>4. CASE ~Silent(a) /\ (Watched(a) \/ watchdog_secs[a] = 0)
    <3>1. entry'[a] = entry[a]
      BY <2>4 DEF Pass
    <3> QED BY <2>0, <2>1, <2>2, <3>1 DEF Agree
  <2>5. CASE ~Silent(a) /\ ~Watched(a) /\ watchdog_secs[a] # 0
    <3> DEFINE e == [entry[a] EXCEPT !.backoff = @ - 1]
    <3>1. entry'[a] = e
      BY <2>5 DEF Pass
    <3>2. e \in Entries /\ Agree(e, p, waiter[a], watchdog_secs[a])
      BY <2>0, <2>2, <2>5, BoundAssumption DEF Watched, Entries, Agree
    <3> QED BY <2>1, <2>2, <3>1, <3>2
  <2> QED BY <2>3, <2>4, <2>5
<1>2. entry' \in [App -> Entries] /\ process' \in [App -> Processes]
  <2>1. entry' = [a \in App |-> entry'[a]] /\ process' = [a \in App |-> process'[a]]
    BY DEF Pass
  <2> QED BY <1>1, <2>1
<1> QED BY <1>1, <1>2 DEF Pass, IInv

LEMMA MonitorStep == ASSUME IInv, MonitorPass PROVE IInv'
<1>1. CASE UNCHANGED process
  BY <1>1 DEF MonitorPass, IInv
<1>2. CASE ~ UNCHANGED process
  <2>1. PICK a \in Candidate :
            process' = [process EXCEPT ![a].doomed = @ \/ process[a].alive]
    BY <1>2 DEF MonitorPass
  <2>2. process' \in [App -> Processes]
        /\ \A b \in App : /\ process'[b].unread = process[b].unread
                          /\ process'[b].quiet = process[b].quiet
                          /\ process'[b].alive = process[b].alive
    BY <2>1 DEF IInv, Processes
  <2> QED BY <2>2 DEF MonitorPass, IInv, Agree
<1> QED BY <1>1, <1>2

LEMMA NextInv == IInv /\ [Next]_vars => IInv'
<1> SUFFICES ASSUME IInv, [Next]_vars PROVE IInv'
  OBVIOUS
<1>1. CASE UNCHANGED vars
  BY <1>1 DEF vars, IInv
<1> QED
  BY <1>1, AppStep, SecondStep, PassStep, MonitorStep DEF Next

-----------------------------------------------------------------------------
(* The type invariant; the backoff stays below its cap for every number of *)
(* restarts.                                                               *)
THEOREM TypeCorrect == Spec => []TypeOK
<1>1. IInv => TypeOK
  BY SecsAssumption DEF IInv, TypeOK, Entries, Processes, Waiters, Agree
<1> QED
  BY InitInv, NextInv, <1>1, PTL DEF Spec

(* The restart count that is registered, and that ps shows, is the         *)
(* waiter's, and zero between the registration of a restart and the count. *)
THEOREM RestartCountAgrees == Spec => []CountAgrees
<1>1. IInv => CountAgrees
  BY DEF IInv, Agree, CountAgrees
<1> QED
  BY InitInv, NextInv, <1>1, PTL DEF Spec

(* Whom the watchdog kills has been quiet for its limit, or its reader is  *)
(* behind or broke off at what it printed.                                 *)
THEOREM WatchdogIsJust == Spec => KilledForItsSilence
<1>1. ASSUME IInv, Pass, NEW a \in App, process'[a].doomed, ~process[a].doomed
      PROVE  process[a].quiet >= watchdog_secs[a] \/ process[a].unread > 0
  <2>1. Silent(a)
    BY <1>1 DEF Pass, IInv, Processes
  <2>2. entry[a].age >= watchdog_secs[a]
    BY <2>1 DEF Silent
  <2> QED BY <1>1, <2>2, SecsAssumption, BoundAssumption DEF IInv, Entries, Processes, Agree
<1>2. IInv /\ [Next]_vars =>
        [Pass => \A a \in App : process'[a].doomed /\ ~process[a].doomed =>
            process[a].quiet >= watchdog_secs[a] \/ process[a].unread > 0]_vars
  BY <1>1
<1> QED
  BY InitInv, NextInv, <1>2, PTL DEF Spec, KilledForItsSilence

(* Under critical pressure no background application that runs was         *)
(* restarted more often than the one that is killed, unless its restart is *)
(* registered and not counted yet.  The one that is killed may be at that  *)
(* point itself: it shows zero then, and so must all the others.           *)
THEOREM LeastStableIsKilled == Spec => LeastStableFirst
<1>1. ASSUME IInv, MonitorPass, NEW a \in Background, NEW b \in Background,
             process'[a].doomed, ~process[a].doomed,
             entry[b].running, waiter[b].pc # "count"
      PROVE  waiter[a].restart_count >= waiter[b].restart_count
  <2>1. Victim(a)
    BY <1>1, BackgroundAssumption DEF MonitorPass, IInv, Processes, Candidate
  <2>2. entry[a].restart_count >= entry[b].restart_count
    BY <1>1, <2>1 DEF Victim, Candidate
  <2>3. entry[b].restart_count = waiter[b].restart_count
    BY <1>1, BackgroundAssumption DEF IInv, Agree
  <2>4. /\ entry[a].restart_count = waiter[a].restart_count \/ entry[a].restart_count = 0
        /\ waiter[a].restart_count \in Nat /\ waiter[b].restart_count \in Nat
    BY <1>1, BackgroundAssumption DEF IInv, Agree, Waiters
  <2> QED BY <2>2, <2>3, <2>4
<1> DEFINE First == \A a, b \in Background :
                      process'[a].doomed /\ ~process[a].doomed /\ entry[b].running
                        /\ waiter[b].pc # "count"
                        => waiter[a].restart_count >= waiter[b].restart_count
<1>2. ASSUME IInv, MonitorPass PROVE First
  BY <1>1, <1>2
<1> HIDE DEF First
<1>3. IInv /\ [Next]_vars => [MonitorPass => First]_vars
  BY <1>2
<1> QED
  BY InitInv, NextInv, <1>3, PTL DEF Spec, LeastStableFirst, First
===============================================================================
