-------------------------- MODULE AppLifecycleProofs --------------------------
(***************************************************************************)
(* Theorems about AppLifecycle, for every set of applications, processes,  *)
(* handlers and waiters and every set of commands.                         *)
(***************************************************************************)
EXTENDS AppLifecycle, TLAPS

\* Control points at which a thread owns a child, or a pid reserved for one.
Owning == {"verify", "register", "launch", "wait", "mark"}

\* A thread that is not idle works on an application.
Busy == \A t \in Thread : pc[t] # "idle" => job[t] \in App

\* A thread has a child exactly at those points, and shares it with no other.
ChildControl == \A t \in Thread : child[t] # NoPid <=> pc[t] \in Owning

ChildUnique == \A t, u \in Thread : child[t] # NoPid /\ child[t] = child[u] => t = u

\* Before cmd.spawn and after child.wait there is no process ...
ChildFree == \A t \in Thread : pc[t] \in {"verify", "mark"} => proc[child[t]] = "free"

\* ... and in between there is one, which runs the thread's application.
ChildAlive ==
  \A t \in Thread : pc[t] \in {"register", "launch", "wait"} =>
    proc[child[t]] # "free" /\ owner[child[t]] = job[t]

\* Every process is the child of a thread that has not waited for it yet.
HasOwner ==
  \A p \in Pid : proc[p] # "free" =>
    \E t \in Thread : child[t] = p /\ pc[t] \in {"register", "launch", "wait"}

IInv == /\ TypeOK /\ Busy /\ ChildControl /\ ChildUnique /\ ChildFree /\ ChildAlive
        /\ HasOwner /\ RunningIsWatched

\* The invariant gives the properties checked by TLC.
LEMMA InvOwned == IInv => Owned
<1> SUFFICES ASSUME IInv, NEW p \in Pid, proc[p] # "free"
             PROVE  \E t \in Thread :
                      /\ child[t] = p /\ job[t] = owner[p]
                      /\ pc[t] \in {"register", "launch", "wait"}
                      /\ \A u \in Thread : child[u] = p => u = t
  BY DEF Owned
<1>1. PICK t \in Thread : child[t] = p /\ pc[t] \in {"register", "launch", "wait"}
  BY DEF IInv, HasOwner
<1>2. job[t] = owner[p]
  BY <1>1 DEF IInv, ChildAlive
<1>3. ASSUME NEW u \in Thread, child[u] = p PROVE u = t
  BY <1>1, <1>3, NullAssumption DEF IInv, ChildUnique
<1> QED
  BY <1>1, <1>2, <1>3

LEMMA InitInv == Init => IInv
<1> SUFFICES ASSUME NEW f \in [Booted -> Pid], NEW g \in [Booted -> Waiter], AfterBoot(f, g)
             PROVE  IInv
  BY DEF Init
<1> USE DEF AfterBoot
<1>1. ASSUME NEW x, InUse(f, x)
      PROVE  AppOf(f, x) \in Booted /\ f[AppOf(f, x)] = x
  BY <1>1 DEF InUse, AppOf
<1>2. ASSUME NEW x, InUse(g, x)
      PROVE  AppOf(g, x) \in Booted /\ g[AppOf(g, x)] = x /\ x \in Waiter
  BY <1>2 DEF InUse, AppOf
<1>3. ASSUME NEW a \in Booted
      PROVE  /\ InUse(f, f[a]) /\ AppOf(f, f[a]) = a
             /\ InUse(g, g[a]) /\ AppOf(g, g[a]) = a
  BY <1>1, <1>2, <1>3 DEF InUse
<1>4. TypeOK
  <2>1. \A a \in Booted : BootPolicy[a] \in Policy /\ a \in App
    BY PolicyAssumption
  <2>2. proc \in [Pid -> ProcState] /\ owner \in [Pid -> App \union {NoApp}]
    BY <1>1, <2>1 DEF ProcState
  <2>3. registry \in [App -> Entry \union {NoEntry}]
    BY <2>1 DEF Entry
  <2>4. /\ inbox \in [App -> Pid \union {NoPid, Dangling}]
        /\ victim \in [Thread -> Pid \union {NoPid}]
        /\ code \in [Thread -> {"ok", "fail"}]
    OBVIOUS
  <2>5. /\ pc \in [Thread -> HandlerControl \union WaiterControl]
        /\ job \in [Thread -> App \union {NoApp}]
    BY <1>2, <2>1 DEF HandlerControl, WaiterControl
  <2>6. /\ pol \in [Thread -> Policy]
        /\ child \in [Thread -> Pid \union {NoPid}]
    BY <1>2, <2>1 DEF Policy
  <2>7. /\ \A h \in Handler : pc[h] \in HandlerControl
        /\ \A w \in Waiter : pc[w] \in WaiterControl
    BY <1>2, ThreadAssumption DEF Thread, HandlerControl, WaiterControl
  <2> QED
    BY <2>2, <2>3, <2>4, <2>5, <2>6, <2>7 DEF TypeOK
<1>5. Busy
  BY <1>2, PolicyAssumption DEF Busy
<1>6. ChildControl
  BY <1>2, NullAssumption DEF ChildControl, Owning
<1>7. ChildUnique
  BY <1>2 DEF ChildUnique
<1>8. ChildFree
  BY DEF ChildFree
<1>9. ChildAlive
  BY <1>2, <1>3 DEF ChildAlive
<1>10. HasOwner
  BY <1>1, <1>3 DEF HasOwner, Thread
<1>11. RunningIsWatched
  BY <1>3 DEF RunningIsWatched, Thread
<1> QED
  BY <1>4, <1>5, <1>6, <1>7, <1>8, <1>9, <1>10, <1>11 DEF IInv
------------------------------------------------------------------------------
(* Steps that leave every child with its thread.                            *)

\* A thread moves between points at which it owns no child, or a process ends.
LEMMA ChildlessStep ==
  ASSUME IInv, TypeOK', Busy', child' = child, owner' = owner,
         \A p \in Pid : proc'[p] = "free" <=> proc[p] = "free",
         \A a \in App : registry'[a] = registry[a],
         \A t \in Thread : \/ pc'[t] = pc[t] /\ job'[t] = job[t]
                           \/ pc[t] \notin Owning /\ pc'[t] \notin Owning
  PROVE  IInv'
<1> USE DEF IInv, Owning
<1>1. ChildControl' /\ ChildUnique'
  BY DEF ChildControl, ChildUnique
<1>2. ChildFree'
  BY NullAssumption DEF ChildFree, ChildControl, TypeOK
<1>3. ChildAlive'
  BY NullAssumption DEF ChildAlive, ChildControl, TypeOK
<1>4. HasOwner'
  BY DEF HasOwner
<1>5. RunningIsWatched'
  BY DEF RunningIsWatched
<1> QED
  BY <1>1, <1>2, <1>3, <1>4, <1>5

LEMMA ExitInv == ASSUME IInv, NEW p \in Pid, Exit(p) PROVE IInv'
<1>1. TypeOK'
  BY DEF IInv, TypeOK, Exit, ProcState
<1>2. Busy'
  BY DEF IInv, Busy, Exit
<1>3. \A q \in Pid : proc'[q] = "free" <=> proc[q] = "free"
  BY DEF IInv, TypeOK, Exit
<1> QED
  BY <1>1, <1>2, <1>3, ChildlessStep DEF Exit

\* A signal never makes a pid free or takes one.
LEMMA KilledKeeps ==
  ASSUME TypeOK, NEW v
  PROVE  /\ Killed(v) \in [Pid -> ProcState]
         /\ \A q \in Pid : Killed(v)[q] = "free" <=> proc[q] = "free"
BY DEF TypeOK, Killed, ProcState

LEMMA WatchdogInv == ASSUME IInv, NEW a \in App, WatchdogKill(a) PROVE IInv'
<1>1. TypeOK'
  BY KilledKeeps DEF IInv, TypeOK, WatchdogKill
<1>2. Busy'
  BY DEF IInv, Busy, WatchdogKill
<1>3. \A q \in Pid : proc'[q] = "free" <=> proc[q] = "free"
  BY KilledKeeps DEF IInv, WatchdogKill
<1> QED
  BY <1>1, <1>2, <1>3, ChildlessStep DEF WatchdogKill

LEMMA BeginInv ==
  ASSUME IInv, NEW h \in Handler, NEW cmd, NEW a \in App,
         NEW next \in {"signal", "signal_then_spawn", "download", "spawn"},
         NEW policy \in Policy, NEW v \in Pid \union {NoPid},
         Begin(h, cmd, a, next, policy, v)
  PROVE  IInv'
<1> USE DEF Begin, kernel, shared
<1>0. h \in Thread
  BY DEF Thread
<1>1. TypeOK'
  BY <1>0, ThreadAssumption DEF IInv, TypeOK, HandlerControl, Thread
<1>2. Busy'
  BY <1>0 DEF IInv, TypeOK, Busy
<1>3. \A t \in Thread : \/ pc'[t] = pc[t] /\ job'[t] = job[t]
                        \/ pc[t] \notin Owning /\ pc'[t] \notin Owning
  BY <1>0 DEF IInv, TypeOK, Owning
<1> QED
  BY <1>1, <1>2, <1>3, ChildlessStep

LEMMA IssueInv == ASSUME IInv, NEW h \in Handler, NEW a \in App, Issue(h, a) PROVE IInv'
<1>1. CASE Run(h, a)
  BY <1>1, BeginInv DEF Run, Policy
<1>2. CASE Kill(h, a)
  BY <1>2, BeginInv DEF Kill, Policy, IInv, TypeOK, Entry
<1>3. CASE Restart(h, a)
  BY <1>3, BeginInv DEF Restart, IInv, TypeOK, Entry
<1>4. CASE Reload(h, a)
  BY <1>4, BeginInv, PolicyAssumption DEF Reload
<1>5. CASE Update(h, a)
  BY <1>5, BeginInv DEF Update, IInv, TypeOK, Entry
<1> QED
  BY <1>1, <1>2, <1>3, <1>4, <1>5 DEF Issue

\* A thread without a child gives up.
LEMMA FinishChildless ==
  ASSUME IInv, NEW t \in Thread, pc[t] \notin Owning, Finish(t),
         proc' \in [Pid -> ProcState],
         \A q \in Pid : proc'[q] = "free" <=> proc[q] = "free",
         UNCHANGED <<owner, registry, inbox>>
  PROVE  IInv'
<1> USE DEF Finish
<1>1. TypeOK'
  BY DEF IInv, TypeOK, HandlerControl, WaiterControl, Policy, Thread
<1>2. Busy'
  BY DEF IInv, TypeOK, Busy
<1>3. child' = child
  BY DEF IInv, TypeOK, ChildControl
<1>4. \A u \in Thread : \/ pc'[u] = pc[u] /\ job'[u] = job[u]
                        \/ pc[u] \notin Owning /\ pc'[u] \notin Owning
  BY DEF IInv, TypeOK, Owning
<1> QED
  BY <1>1, <1>2, <1>3, <1>4, ChildlessStep

LEMMA HandlerChildless ==
  ASSUME IInv, NEW h \in Handler,
         Signal(h) \/ SignalThenSpawn(h) \/ UpdateFails(h) \/ UpdateKill(h)
  PROVE  IInv'
<1>0. h \in Thread
  BY DEF Thread
<1>1. CASE Signal(h)
  BY <1>0, <1>1, KilledKeeps, FinishChildless DEF Signal, shared, Owning, IInv
<1>2. CASE UpdateFails(h)
  BY <1>0, <1>2, FinishChildless DEF UpdateFails, kernel, shared, Owning, IInv, TypeOK
<1>3. CASE SignalThenSpawn(h) \/ UpdateKill(h)
  <2> USE <1>3 DEF SignalThenSpawn, UpdateKill, shared
  <2>1. /\ proc' \in [Pid -> ProcState]
        /\ \A q \in Pid : proc'[q] = "free" <=> proc[q] = "free"
    BY KilledKeeps DEF IInv, TypeOK
  <2>2. TypeOK'
    BY <1>0, <2>1, ThreadAssumption DEF IInv, TypeOK, HandlerControl, Thread
  <2>3. Busy'
    BY <1>0 DEF IInv, TypeOK, Busy
  <2>4. \A t \in Thread : \/ pc'[t] = pc[t] /\ job'[t] = job[t]
                          \/ pc[t] \notin Owning /\ pc'[t] \notin Owning
    BY <1>0 DEF IInv, TypeOK, Owning
  <2> QED
    BY <2>1, <2>2, <2>3, <2>4, ChildlessStep
<1> QED
  BY <1>1, <1>2, <1>3

LEMMA StutterInv == ASSUME IInv, UNCHANGED vars PROVE IInv'
BY DEF vars, IInv, TypeOK, Busy, ChildControl, ChildUnique, ChildFree, ChildAlive,
       HasOwner, RunningIsWatched
------------------------------------------------------------------------------
(* Steps of spawn_app.                                                      *)

LEMMA SpawnRefusedInv == ASSUME IInv, NEW t \in Thread, SpawnRefused(t) PROVE IInv'
BY FinishChildless DEF SpawnRefused, kernel, shared, Owning, IInv, TypeOK

LEMMA SpawnBeginInv == ASSUME IInv, NEW t \in Thread, SpawnBegin(t) PROVE IInv'
<1> USE DEF IInv, SpawnBegin, kernel
<1>1. PICK p \in Pid : /\ FreePid(p)
                       /\ inbox' = [inbox EXCEPT ![job[t]] = p]
                       /\ child' = [child EXCEPT ![t] = p]
  OBVIOUS
<1>2. proc[p] = "free" /\ \A u \in Thread : child[u] # p
  BY <1>1 DEF FreePid
<1>3. child[t] = NoPid
  BY DEF ChildControl, Owning
<1>4. \A u \in Thread : u # t => child'[u] = child[u] /\ pc'[u] = pc[u]
  BY <1>1 DEF TypeOK
<1>5. child'[t] = p /\ pc'[t] = "verify"
  BY <1>1 DEF TypeOK
<1>6. TypeOK'
  BY <1>1, ThreadAssumption DEF TypeOK, HandlerControl, WaiterControl, Thread
<1>7. Busy'
  BY <1>4 DEF Busy
<1>8. ChildControl'
  BY <1>4, <1>5, NullAssumption DEF ChildControl, Owning
<1>9. ChildUnique'
  BY <1>2, <1>4, <1>5 DEF ChildUnique
<1>10. ChildFree'
  BY <1>2, <1>4, <1>5 DEF ChildFree
<1>11. ChildAlive'
  BY <1>4, <1>5 DEF ChildAlive
<1>12. HasOwner'
  BY <1>4 DEF HasOwner
<1>13. RunningIsWatched'
  BY <1>4 DEF RunningIsWatched
<1> QED
  BY <1>6, <1>7, <1>8, <1>9, <1>10, <1>11, <1>12, <1>13

LEMMA SpawnFailsInv == ASSUME IInv, NEW t \in Thread, SpawnFails(t) PROVE IInv'
<1> USE DEF IInv, SpawnFails, Finish, kernel
<1>1. \A u \in Thread : u # t => /\ child'[u] = child[u] /\ pc'[u] = pc[u]
                                 /\ job'[u] = job[u]
  BY DEF TypeOK
<1>2. child'[t] = NoPid /\ pc'[t] = "idle"
  BY DEF TypeOK
<1>3. TypeOK'
  BY DEF TypeOK, HandlerControl, WaiterControl, Policy, Thread
<1>4. Busy'
  BY <1>1, <1>2 DEF Busy
<1>5. ChildControl'
  BY <1>1, <1>2 DEF ChildControl, Owning
<1>6. ChildUnique'
  BY <1>1, <1>2 DEF ChildUnique
<1>7. ChildFree'
  BY <1>1, <1>2 DEF ChildFree
<1>8. ChildAlive'
  BY <1>1, <1>2 DEF ChildAlive
<1>9. HasOwner'
  BY <1>1 DEF HasOwner
<1>10. RunningIsWatched'
  BY <1>1 DEF RunningIsWatched
<1> QED
  BY <1>3, <1>4, <1>5, <1>6, <1>7, <1>8, <1>9, <1>10

LEMMA SpawnProcessInv == ASSUME IInv, NEW t \in Thread, SpawnProcess(t) PROVE IInv'
<1> USE DEF IInv, SpawnProcess, shared
<1>1. child[t] \in Pid /\ child[t] # NoPid /\ job[t] \in App
  BY NullAssumption DEF TypeOK, ChildControl, Owning, Busy
<1>2. \A u \in Thread : u # t => pc'[u] = pc[u] /\ child[u] # child[t]
  BY <1>1 DEF TypeOK, ChildUnique
<1>3. \A p \in Pid : p # child[t] => proc'[p] = proc[p] /\ owner'[p] = owner[p]
  BY DEF TypeOK
<1>4. pc'[t] = "register" /\ proc'[child[t]] = "live" /\ owner'[child[t]] = job[t]
  BY <1>1 DEF TypeOK
<1>5. TypeOK'
  BY <1>1, ThreadAssumption DEF TypeOK, HandlerControl, WaiterControl, Thread, ProcState
<1>6. Busy'
  BY <1>1, <1>2 DEF Busy
<1>7. ChildControl'
  BY <1>1, <1>2, <1>4 DEF ChildControl, Owning
<1>8. ChildUnique'
  BY DEF ChildUnique
<1>9. ChildFree'
  BY <1>2, <1>3, <1>4 DEF ChildFree, ChildControl, TypeOK, Owning
<1>10. ChildAlive'
  BY <1>2, <1>3, <1>4 DEF ChildAlive, ChildControl, TypeOK, Owning
<1>11. HasOwner'
  BY <1>2, <1>3, <1>4 DEF HasOwner
<1>12. RunningIsWatched'
  BY <1>2 DEF RunningIsWatched
<1> QED
  BY <1>5, <1>6, <1>7, <1>8, <1>9, <1>10, <1>11, <1>12

LEMMA RegisterInv == ASSUME IInv, NEW t \in Thread, Register(t) PROVE IInv'
<1> USE DEF IInv, Register, kernel
<1>1. child[t] \in Pid /\ job[t] \in App /\ pol[t] \in Policy
  BY DEF TypeOK, ChildControl, Owning, Busy
<1>2. \A u \in Thread : u # t => pc'[u] = pc[u]
  BY DEF TypeOK
<1>3. pc'[t] = "launch"
  BY DEF TypeOK
<1>4. TypeOK'
  BY <1>1, ThreadAssumption
  DEF TypeOK, HandlerControl, WaiterControl, Thread, Entry
<1>5. Busy'
  BY <1>1, <1>2 DEF Busy
<1>6. ChildControl'
  BY <1>2, <1>3 DEF ChildControl, Owning
<1>7. ChildUnique'
  BY DEF ChildUnique
<1>8. ChildFree'
  BY <1>2, <1>3 DEF ChildFree
<1>9. ChildAlive'
  BY <1>2, <1>3 DEF ChildAlive
<1>10. HasOwner'
  BY <1>2, <1>3 DEF HasOwner
<1>11. RunningIsWatched'
  <2> SUFFICES ASSUME NEW a \in App, registry'[a] # NoEntry, registry'[a].status = "running"
               PROVE  \E u \in Thread : /\ child[u] = registry'[a].pid /\ job[u] = a
                                        /\ pc'[u] \in {"launch", "wait", "mark"}
    BY DEF RunningIsWatched
  <2>1. CASE a = job[t]
    BY <1>1, <1>3, <2>1 DEF TypeOK
  <2>2. CASE a # job[t]
    BY <1>2, <2>2 DEF TypeOK, RunningIsWatched
  <2> QED
    BY <2>1, <2>2
<1> QED
  BY <1>4, <1>5, <1>6, <1>7, <1>8, <1>9, <1>10, <1>11

LEMMA SpawnInv == ASSUME IInv, NEW t \in Thread, Spawn(t) PROVE IInv'
BY SpawnRefusedInv, SpawnBeginInv, SpawnFailsInv, SpawnProcessInv, RegisterInv DEF Spawn

\* The child moves from the handler to a waiter that had none.
LEMMA LaunchInv == ASSUME IInv, NEW h \in Handler, Launch(h) PROVE IInv'
<1> USE DEF IInv
<1>0. pc[h] = "launch" /\ UNCHANGED <<proc, owner, registry, inbox, code>>
  BY DEF Launch, kernel, shared
<1>1. PICK w \in Waiter :
        /\ pc[w] = "idle"
        /\ pc' = [pc EXCEPT ![w] = "wait", ![h] = "idle"]
        /\ job' = [job EXCEPT ![w] = job[h], ![h] = NoApp]
        /\ pol' = [pol EXCEPT ![w] = pol[h], ![h] = "never"]
        /\ child' = [child EXCEPT ![w] = child[h], ![h] = NoPid]
        /\ victim' = [victim EXCEPT ![h] = NoPid]
  BY DEF Launch
<1>2. h \in Thread /\ w \in Thread /\ h # w
  BY ThreadAssumption DEF Thread
<1>3. \A u \in Thread \ {h, w} : pc'[u] = pc[u] /\ job'[u] = job[u] /\ child'[u] = child[u]
  BY <1>1, <1>2 DEF TypeOK
<1>4. /\ pc'[w] = "wait" /\ job'[w] = job[h] /\ child'[w] = child[h]
      /\ pc'[h] = "idle" /\ job'[h] = NoApp /\ child'[h] = NoPid
  BY <1>1, <1>2 DEF TypeOK
<1>5. child[w] = NoPid /\ child[h] # NoPid /\ job[h] \in App
  BY <1>0, <1>1, <1>2 DEF ChildControl, Owning, Busy
<1>6. TypeOK'
  <2>1. /\ pc' \in [Thread -> HandlerControl \union WaiterControl]
        /\ \A k \in Handler : pc'[k] \in HandlerControl
        /\ \A k \in Waiter : pc'[k] \in WaiterControl
    <3>1. pc' \in [Thread -> HandlerControl \union WaiterControl]
      BY <1>1, <1>2 DEF TypeOK, HandlerControl, WaiterControl
    <3>2. ASSUME NEW k \in Thread
          PROVE  pc'[k] = pc[k] \/ (k = h /\ pc'[k] = "idle") \/ (k = w /\ pc'[k] = "wait")
      BY <1>3, <1>4
    <3> QED
      BY <1>2, <3>1, <3>2, ThreadAssumption DEF TypeOK, HandlerControl, WaiterControl, Thread
  <2>2. /\ job' \in [Thread -> App \union {NoApp}]
        /\ pol' \in [Thread -> Policy]
        /\ child' \in [Thread -> Pid \union {NoPid}]
        /\ victim' \in [Thread -> Pid \union {NoPid}]
    BY <1>1, <1>2 DEF TypeOK, Policy
  <2> QED
    BY <1>0, <2>1, <2>2 DEF TypeOK
<1>7. Busy'
  BY <1>3, <1>4, <1>5 DEF Busy
<1>8. ChildControl'
  BY <1>3, <1>4, <1>5 DEF ChildControl, Owning
<1>9. ChildUnique'
  BY <1>2, <1>3, <1>4 DEF ChildUnique
<1>10. ChildFree'
  BY <1>0, <1>3, <1>4 DEF ChildFree
<1>11. ChildAlive'
  <2> SUFFICES ASSUME NEW t \in Thread, pc'[t] \in {"register", "launch", "wait"}
               PROVE  proc[child'[t]] # "free" /\ owner[child'[t]] = job'[t]
    BY <1>0 DEF ChildAlive
  <2>1. CASE t = w
    BY <1>0, <1>2, <1>4, <2>1 DEF ChildAlive
  <2>2. CASE t # w
    BY <1>3, <1>4, <2>2 DEF ChildAlive
  <2> QED
    BY <2>1, <2>2
<1>12. HasOwner'
  <2> SUFFICES ASSUME NEW p \in Pid, proc[p] # "free"
               PROVE  \E t \in Thread : child'[t] = p /\ pc'[t] \in {"register", "launch", "wait"}
    BY <1>0 DEF HasOwner
  <2>1. PICK t \in Thread : child[t] = p /\ pc[t] \in {"register", "launch", "wait"}
    BY DEF HasOwner
  <2> QED
    BY <1>0, <1>1, <1>2, <1>3, <1>4, <2>1
<1>13. RunningIsWatched'
  <2> SUFFICES ASSUME NEW a \in App, registry[a] # NoEntry, registry[a].status = "running"
               PROVE  \E t \in Thread : /\ child'[t] = registry[a].pid /\ job'[t] = a
                                        /\ pc'[t] \in {"launch", "wait", "mark"}
    BY <1>0 DEF RunningIsWatched
  <2>1. PICK t \in Thread : /\ child[t] = registry[a].pid /\ job[t] = a
                            /\ pc[t] \in {"launch", "wait", "mark"}
    BY DEF RunningIsWatched
  <2>2. CASE t = h
    BY <1>2, <1>4, <2>1, <2>2
  <2>3. CASE t # h
    BY <1>1, <1>3, <2>1, <2>3
  <2> QED
    BY <2>2, <2>3
<1> QED
  BY <1>6, <1>7, <1>8, <1>9, <1>10, <1>11, <1>12, <1>13
------------------------------------------------------------------------------
(* Steps of wait_app.                                                       *)

LEMMA ReapInv == ASSUME IInv, NEW w \in Waiter, Reap(w) PROVE IInv'
<1> USE DEF IInv, Reap
<1>1. w \in Thread
  BY DEF Thread
<1>2. child[w] \in Pid /\ child[w] # NoPid
  BY <1>1 DEF TypeOK, ChildControl, Owning
<1>3. \A u \in Thread : u # w => pc'[u] = pc[u] /\ child[u] # child[w]
  BY <1>1, <1>2 DEF TypeOK, ChildUnique
<1>4. \A p \in Pid : p # child[w] => proc'[p] = proc[p] /\ owner'[p] = owner[p]
  BY DEF TypeOK
<1>5. pc'[w] = "mark" /\ proc'[child[w]] = "free"
  BY <1>1, <1>2 DEF TypeOK
<1>6. TypeOK'
  BY <1>1, <1>2, ThreadAssumption DEF TypeOK, WaiterControl, Thread, ProcState
<1>7. Busy'
  BY <1>3, <1>1 DEF Busy
<1>8. ChildControl'
  BY <1>2, <1>3, <1>5 DEF ChildControl, Owning
<1>9. ChildUnique'
  BY DEF ChildUnique
<1>10. ChildFree'
  BY <1>3, <1>4, <1>5 DEF ChildFree, ChildControl, TypeOK, Owning
<1>11. ChildAlive'
  BY <1>3, <1>4, <1>5 DEF ChildAlive, ChildControl, TypeOK, Owning
<1>12. HasOwner'
  BY <1>2, <1>3, <1>4, <1>5 DEF HasOwner
<1>13. RunningIsWatched'
  BY <1>1, <1>3, <1>5 DEF RunningIsWatched
<1> QED
  BY <1>6, <1>7, <1>8, <1>9, <1>10, <1>11, <1>12, <1>13

\* A waiter that has collected its child marks the entry and lets go of it.
LEMMA MarkInv ==
  ASSUME IInv, NEW w \in Waiter, MarkAndRestart(w) \/ MarkAndEnd(w) PROVE IInv'
<1> USE DEF IInv, MarkAndRestart, MarkAndEnd, Finish, Stopped, kernel
<1>1. w \in Thread /\ job[w] \in App
  BY DEF Thread, Busy
<1>2. \A u \in Thread : u # w => /\ pc'[u] = pc[u] /\ job'[u] = job[u]
                                 /\ child'[u] = child[u]
  BY DEF TypeOK
<1>3. child'[w] = NoPid /\ pc'[w] \in {"spawn", "idle"} /\ (pc'[w] = "spawn" => job'[w] = job[w])
  BY <1>1 DEF TypeOK
<1>4. registry' \in [App -> Entry \union {NoEntry}]
  BY <1>1 DEF TypeOK, Entry
<1>5. /\ \A a \in App : a # job[w] => registry'[a] = registry[a]
      /\ registry'[job[w]] = NoEntry \/ registry'[job[w]].status # "running"
  BY <1>1 DEF TypeOK, Entry
<1>6. TypeOK'
  BY <1>1, <1>4, ThreadAssumption
  DEF TypeOK, HandlerControl, WaiterControl, Policy, Thread
<1>7. Busy'
  BY <1>1, <1>2, <1>3 DEF Busy
<1>8. ChildControl'
  BY <1>2, <1>3 DEF ChildControl, Owning
<1>9. ChildUnique'
  BY <1>2, <1>3 DEF ChildUnique
<1>10. ChildFree'
  BY <1>2, <1>3 DEF ChildFree
<1>11. ChildAlive'
  BY <1>2, <1>3 DEF ChildAlive
<1>12. HasOwner'
  BY <1>2 DEF HasOwner
<1>13. RunningIsWatched'
  BY <1>2, <1>5 DEF RunningIsWatched
<1> QED
  BY <1>6, <1>7, <1>8, <1>9, <1>10, <1>11, <1>12, <1>13

LEMMA ResumeInv == ASSUME IInv, NEW w \in Waiter, Resume(w) PROVE IInv'
<1> USE DEF IInv, Resume, kernel, shared
<1>1. w \in Thread
  BY DEF Thread
<1>2. pc'[w] = "wait" /\ \A u \in Thread : u # w => pc'[u] = pc[u]
  BY <1>1 DEF TypeOK
<1>3. TypeOK'
  BY <1>1, ThreadAssumption DEF TypeOK, WaiterControl, Thread
<1>4. Busy'
  BY <1>1, <1>2 DEF Busy
<1>5. ChildControl' /\ ChildUnique'
  BY <1>1, <1>2 DEF ChildControl, ChildUnique, Owning
<1>6. ChildFree' /\ ChildAlive'
  BY <1>1, <1>2 DEF ChildFree, ChildAlive
<1>7. HasOwner'
  BY <1>1, <1>2 DEF HasOwner
<1>8. RunningIsWatched'
  BY <1>1, <1>2 DEF RunningIsWatched
<1> QED
  BY <1>3, <1>4, <1>5, <1>6, <1>7, <1>8
------------------------------------------------------------------------------
LEMMA NextInv == IInv /\ [Next]_vars => IInv'
<1> SUFFICES ASSUME IInv, [Next]_vars PROVE IInv'
  OBVIOUS
<1>1. ASSUME NEW h \in Handler, HandlerStep(h) PROVE IInv'
  BY <1>1, HandlerChildless, SpawnInv, LaunchInv DEF HandlerStep, Thread
<1>2. ASSUME NEW h \in Handler, NEW a \in App, Issue(h, a) PROVE IInv'
  BY <1>2, IssueInv
<1>3. ASSUME NEW w \in Waiter, WaiterStep(w) PROVE IInv'
  BY <1>3, ReapInv, MarkInv, SpawnInv, ResumeInv DEF WaiterStep, Thread
<1>4. ASSUME NEW p \in Pid, Exit(p) PROVE IInv'
  BY <1>4, ExitInv
<1>5. ASSUME NEW a \in App, WatchdogKill(a) PROVE IInv'
  BY <1>5, WatchdogInv
<1> QED
  BY <1>1, <1>2, <1>3, <1>4, <1>5, StutterInv DEF Next

LEMMA SpecInv == Spec => []IInv
BY InitInv, NextInv, PTL DEF Spec

\* The state has its type; in particular handlers and waiters keep to their own
\* control points although they share spawn_app.
THEOREM TypeCorrect == Spec => []TypeOK
<1>1. IInv => TypeOK
  BY DEF IInv
<1> QED
  BY <1>1, SpecInv, PTL

\* Every process is the child of exactly one thread that has still to wait for
\* it (wait_app), whatever commands are issued and however the threads overlap:
\* no zombies, and no exit handled twice.
THEOREM ProcessesAreOwned == Spec => []Owned
BY InvOwned, SpecInv, PTL

\* An entry the registry shows as running names a child that some thread of that
\* application has still to launch, wait for or mark, although waiters mark
\* whatever entry bears their application's name.
THEOREM RunningEntriesAreWatched == Spec => []RunningIsWatched
<1>1. IInv => RunningIsWatched
  BY DEF IInv
<1> QED
  BY <1>1, SpecInv, PTL
------------------------------------------------------------------------------
(* Supervision without commands that spawn: what the restart loop of       *)
(* wait_app guarantees when processes end by themselves, by `kill` and by  *)
(* the watchdog.  An application has one process, and the registry and the *)
(* inbox agree with it.  The commands that spawn break this: see the run   *)
(* restart_duplicates.                                                     *)

\* Threads that execute commands never spawn.
HandlersKill == \A h \in Handler : pc[h] \in {"idle", "signal"}

\* An application has at most one waiter.
JobUnique ==
  \A w, v \in Waiter : pc[w] # "idle" /\ pc[v] # "idle" /\ job[w] = job[v] => w = v

\* The entry and the channel of its application are those of the waiter's child.
EntryIsChild ==
  \A w \in Waiter : pc[w] \in {"launch", "wait"} =>
    /\ registry[job[w]] # NoEntry
    /\ registry[job[w]].status = "running"
    /\ registry[job[w]].pid = child[w]

InboxIsChild ==
  \A w \in Waiter : pc[w] \in {"verify", "register", "launch", "wait"} =>
    inbox[job[w]] = child[w]

KInv == HandlersKill /\ JobUnique /\ EntryIsChild /\ InboxIsChild

\* A live process is the child of a waiter of its application ...
LEMMA LiveIsChild ==
  ASSUME IInv, HandlersKill, NEW a \in App, NEW p \in Live(a)
  PROVE  \E w \in Waiter : /\ child[w] = p /\ job[w] = a
                           /\ pc[w] \in {"register", "launch", "wait"}
<1>1. p \in Pid /\ proc[p] # "free" /\ owner[p] = a
  BY DEF Live
<1>2. PICK t \in Thread : child[t] = p /\ pc[t] \in {"register", "launch", "wait"}
  BY <1>1 DEF IInv, HasOwner
<1>3. job[t] = a
  BY <1>1, <1>2 DEF IInv, ChildAlive
<1> QED
  BY <1>2, <1>3 DEF HandlersKill, Thread

\* ... so the invariants give the properties.
LEMMA KInvProperties == IInv /\ KInv => OneInstance /\ StatusAgrees /\ InboxAgrees
<1> SUFFICES ASSUME IInv, KInv PROVE OneInstance /\ StatusAgrees /\ InboxAgrees
  OBVIOUS
<1>1. OneInstance
  <2> SUFFICES ASSUME NEW a \in App, NEW p \in Live(a), NEW q \in Live(a) PROVE p = q
    BY DEF OneInstance
  <2>1. PICK w \in Waiter : child[w] = p /\ job[w] = a /\ pc[w] # "idle"
    BY LiveIsChild DEF KInv
  <2>2. PICK v \in Waiter : child[v] = q /\ job[v] = a /\ pc[v] # "idle"
    BY LiveIsChild DEF KInv
  <2> QED
    BY <2>1, <2>2 DEF KInv, JobUnique
<1>2. ASSUME Quiet, NEW a \in App, NEW p \in Live(a)
      PROVE  /\ registry[a] # NoEntry /\ registry[a].status = "running"
             /\ registry[a].pid = p /\ inbox[a] = p
  <2>1. PICK w \in Waiter : /\ child[w] = p /\ job[w] = a
                            /\ pc[w] \in {"register", "launch", "wait"}
    BY LiveIsChild DEF KInv
  <2>2. pc[w] = "wait"
    BY <1>2, <2>1 DEF Quiet, Thread
  <2> QED
    BY <2>1, <2>2 DEF KInv, EntryIsChild, InboxIsChild
<1>3. StatusAgrees
  BY <1>2 DEF StatusAgrees
<1>4. InboxAgrees
  BY <1>2 DEF InboxAgrees
<1> QED
  BY <1>1, <1>3, <1>4

LEMMA InitKInv == Init => KInv
<1> SUFFICES ASSUME NEW f \in [Booted -> Pid], NEW g \in [Booted -> Waiter], AfterBoot(f, g)
             PROVE  KInv
  BY DEF Init
<1>1. ASSUME NEW t \in Thread, pc[t] # "idle"
      PROVE  /\ t \in Waiter /\ pc[t] = "wait"
             /\ job[t] \in Booted /\ g[job[t]] = t /\ child[t] = f[job[t]]
  <2>1. InUse(g, t) /\ pc[t] = "wait" /\ job[t] = AppOf(g, t) /\ child[t] = f[AppOf(g, t)]
    BY <1>1 DEF AfterBoot
  <2>2. AppOf(g, t) \in Booted /\ g[AppOf(g, t)] = t
    BY <2>1 DEF InUse, AppOf
  <2> QED
    BY <2>1, <2>2
<1>2. ASSUME NEW a \in Booted
      PROVE  /\ registry[a] # NoEntry /\ registry[a].status = "running"
             /\ registry[a].pid = f[a] /\ inbox[a] = f[a]
  <2>1. /\ a \in App /\ BootPolicy[a] \in Policy
        /\ registry[a] = [status |-> "running", pid |-> f[a], policy |-> BootPolicy[a]]
        /\ inbox[a] = f[a]
    BY PolicyAssumption DEF AfterBoot
  <2>2. registry[a] \in Entry
    BY <2>1 DEF Entry
  <2> QED
    BY <2>1, <2>2, EntryAssumption
<1>3. HandlersKill
  <2>1. \A h \in Handler : h \in Thread /\ h \notin Waiter
    BY ThreadAssumption DEF Thread
  <2> QED
    BY <1>1, <2>1 DEF HandlersKill
<1>4. Waiter \subseteq Thread
  BY DEF Thread
<1>5. JobUnique
  <2> SUFFICES ASSUME NEW w \in Waiter, NEW v \in Waiter,
                      pc[w] # "idle", pc[v] # "idle", job[w] = job[v]
               PROVE  w = v
    BY DEF JobUnique
  <2>1. g[job[w]] = w /\ g[job[v]] = v
    BY <1>1, <1>4
  <2> QED
    BY <2>1
<1>6. EntryIsChild /\ InboxIsChild
  BY <1>1, <1>2, <1>4 DEF EntryIsChild, InboxIsChild
<1> QED
  BY <1>3, <1>5, <1>6 DEF KInv
------------------------------------------------------------------------------
(* Steps.                                                                   *)

\* Steps of the kernel and of handlers, which only signal.
LEMMA NoWaiterMoves ==
  ASSUME KInv, UNCHANGED <<registry, inbox, child>>, HandlersKill',
         \A w \in Waiter : pc'[w] = pc[w] /\ job'[w] = job[w]
  PROVE  KInv'
<1>1. JobUnique'
  BY DEF KInv, JobUnique
<1>2. EntryIsChild' /\ InboxIsChild'
  BY DEF KInv, EntryIsChild, InboxIsChild
<1> QED
  BY <1>1, <1>2 DEF KInv

\* A waiter changes the entry and the channel of its own application, and no
\* other waiter works on that.
LEMMA OneWaiterMoves ==
  ASSUME IInv, KInv, NEW w \in Waiter, pc[w] # "idle",
         \A t \in Thread : t # w => /\ pc'[t] = pc[t] /\ job'[t] = job[t]
                                    /\ child'[t] = child[t],
         pc'[w] # "idle" => job'[w] = job[w],
         \A a \in App : a # job[w] => /\ registry'[a] = registry[a]
                                      /\ inbox'[a] = inbox[a] \/ inbox[a] = child[w],
         pc'[w] \in {"launch", "wait"} =>
           /\ registry'[job[w]] # NoEntry
           /\ registry'[job[w]].status = "running"
           /\ registry'[job[w]].pid = child'[w],
         pc'[w] \in {"verify", "register", "launch", "wait"} => inbox'[job[w]] = child'[w]
  PROVE  KInv'
<1>1. /\ Waiter \subseteq Thread
      /\ \A h \in Handler : h \in Thread /\ h # w
  BY ThreadAssumption DEF Thread
<1>2. HandlersKill'
  BY <1>1 DEF KInv, HandlersKill
<1>3. JobUnique'
  BY <1>1 DEF KInv, JobUnique
<1>4. ASSUME NEW v \in Waiter, v # w, pc[v] # "idle"
      PROVE  job[v] \in App /\ job[v] # job[w]
  BY <1>1, <1>4 DEF KInv, JobUnique, IInv, Busy
<1>5. EntryIsChild'
  <2> SUFFICES ASSUME NEW v \in Waiter, pc'[v] \in {"launch", "wait"}
               PROVE  /\ registry'[job'[v]] # NoEntry
                      /\ registry'[job'[v]].status = "running"
                      /\ registry'[job'[v]].pid = child'[v]
    BY DEF EntryIsChild
  <2>1. CASE v = w
    BY <2>1
  <2>2. CASE v # w
    BY <1>1, <1>4, <2>2 DEF KInv, EntryIsChild
  <2> QED
    BY <2>1, <2>2
<1>6. InboxIsChild'
  <2> SUFFICES ASSUME NEW v \in Waiter, pc'[v] \in {"verify", "register", "launch", "wait"}
               PROVE  inbox'[job'[v]] = child'[v]
    BY DEF InboxIsChild
  <2>1. CASE v = w
    BY <2>1
  <2>2. CASE v # w
    <3>1. pc'[v] = pc[v] /\ job'[v] = job[v] /\ child'[v] = child[v]
      BY <1>1, <2>2
    <3>2. inbox[job[v]] = child[v]
      BY <3>1 DEF KInv, InboxIsChild
    <3>3. child[v] # child[w]
      BY <1>1, <2>2, <3>1 DEF IInv, ChildControl, ChildUnique, Owning
    <3> QED
      BY <1>4, <2>2, <3>1, <3>2, <3>3
  <2> QED
    BY <2>1, <2>2
<1> QED
  BY <1>2, <1>3, <1>5, <1>6 DEF KInv

\* A handler begins or ends a kill.
LEMMA HandlerKInv ==
  ASSUME Command \subseteq {"kill"}, IInv, KInv, NEW h \in Handler,
         HandlerStep(h) \/ \E a \in App : Issue(h, a)
  PROVE  KInv'
<1>1. h \in Thread /\ \A w \in Waiter : w \in Thread /\ w # h
  BY ThreadAssumption DEF Thread
<1>2. pc[h] \in {"idle", "signal"}
  BY DEF KInv, HandlersKill
<1>3. Signal(h) \/ \E a \in App : Kill(h, a)
  <2>1. CASE HandlerStep(h)
    BY <1>2, <2>1
    DEF HandlerStep, SignalThenSpawn, UpdateFails, UpdateKill, Spawn, SpawnRefused,
        SpawnBegin, SpawnFails, SpawnProcess, Register, Launch
  <2>2. ASSUME NEW a \in App, Issue(h, a) PROVE Kill(h, a)
    BY <2>2 DEF Issue, Run, Restart, Reload, Update, Begin
  <2> QED
    BY <2>1, <2>2
<1>4. /\ UNCHANGED <<registry, inbox>>
      /\ pc' \in {[pc EXCEPT ![h] = "idle"], [pc EXCEPT ![h] = "signal"]}
      /\ \A t \in Thread : t # h => job'[t] = job[t]
  BY <1>1, <1>3 DEF Signal, Kill, Begin, Finish, shared, IInv, TypeOK
<1>5. child' = child
  <2>1. CASE Signal(h)
    BY <1>1, <2>1 DEF Signal, Finish, IInv, TypeOK, ChildControl, Owning
  <2>2. CASE \E a \in App : Kill(h, a)
    BY <2>2 DEF Kill, Begin
  <2> QED
    BY <1>3, <2>1, <2>2
<1>6. \A t \in Thread : t # h => pc'[t] = pc[t]
  BY <1>4 DEF IInv, TypeOK
<1>7. HandlersKill'
  <2>1. pc'[h] \in {"idle", "signal"}
    BY <1>1, <1>4 DEF IInv, TypeOK
  <2> QED
    BY <1>6, <2>1 DEF KInv, HandlersKill, Thread
<1> QED
  BY <1>1, <1>4, <1>5, <1>6, <1>7, NoWaiterMoves

LEMMA KernelKInv ==
  ASSUME KInv, UNCHANGED <<registry, inbox, pc, job, child>> PROVE KInv'
BY NoWaiterMoves DEF KInv, HandlersKill

LEMMA WaiterKInv == ASSUME IInv, KInv, NEW w \in Waiter, WaiterStep(w) PROVE KInv'
<1>1. w \in Thread /\ pc[w] # "idle"
  BY DEF Thread, WaiterStep, Reap, MarkAndRestart, MarkAndEnd, Spawn, SpawnRefused,
         SpawnBegin, SpawnFails, SpawnProcess, Register, Resume
<1>2. job[w] \in App
  BY <1>1 DEF IInv, Busy
<1> USE <1>1, <1>2, OneWaiterMoves
<1>3. CASE Reap(w)
  BY <1>3 DEF Reap, IInv, TypeOK
<1>4. CASE MarkAndRestart(w)
  BY <1>4 DEF MarkAndRestart, Stopped, kernel, IInv, TypeOK
<1>5. CASE MarkAndEnd(w)
  BY <1>5 DEF MarkAndEnd, Finish, Stopped, kernel, IInv, TypeOK
<1>6. CASE SpawnRefused(w)
  BY <1>6 DEF SpawnRefused, Finish, kernel, shared, IInv, TypeOK
<1>7. CASE SpawnBegin(w)
  BY <1>7 DEF SpawnBegin, kernel, IInv, TypeOK
<1>8. CASE SpawnFails(w)
  BY <1>8 DEF SpawnFails, Finish, kernel, IInv, TypeOK
<1>9. CASE SpawnProcess(w)
  BY <1>9 DEF SpawnProcess, shared, IInv, TypeOK, KInv, InboxIsChild
<1>10. CASE Register(w)
  <2>1. registry'[job[w]] = [status |-> "running", pid |-> child[w], policy |-> pol[w]]
    BY <1>10 DEF Register, IInv, TypeOK
  <2>2. child[w] \in Pid /\ pol[w] \in Policy
    BY <1>10 DEF Register, IInv, TypeOK, ChildControl, Owning
  <2>3. registry'[job[w]] # NoEntry
    BY <2>1, <2>2, EntryAssumption DEF Entry
  <2> QED
    BY <1>10, <2>1, <2>3 DEF Register, kernel, IInv, TypeOK, KInv, InboxIsChild
<1>11. CASE Resume(w)
  BY <1>11 DEF Resume, kernel, shared, IInv, TypeOK, KInv, EntryIsChild, InboxIsChild
<1> QED
  BY <1>3, <1>4, <1>5, <1>6, <1>7, <1>8, <1>9, <1>10, <1>11 DEF WaiterStep, Spawn
------------------------------------------------------------------------------
LEMMA NextKInv ==
  ASSUME Command \subseteq {"kill"}
  PROVE  IInv /\ KInv /\ [Next]_vars => KInv'
<1> SUFFICES ASSUME IInv, KInv, [Next]_vars PROVE KInv'
  OBVIOUS
<1>1. ASSUME NEW h \in Handler, HandlerStep(h) \/ \E a \in App : Issue(h, a) PROVE KInv'
  BY <1>1, HandlerKInv
<1>2. ASSUME NEW w \in Waiter, WaiterStep(w) PROVE KInv'
  BY <1>2, WaiterKInv
<1>3. ASSUME (\E p \in Pid : Exit(p)) \/ (\E a \in App : WatchdogKill(a)) \/ UNCHANGED vars
      PROVE  KInv'
  BY <1>3, KernelKInv DEF Exit, WatchdogKill, vars
<1> QED
  BY <1>1, <1>2, <1>3 DEF Next

LEMMA SupervisionHolds ==
  ASSUME Command \subseteq {"kill"}
  PROVE  Spec => [](OneInstance /\ StatusAgrees /\ InboxAgrees)
<1>1. Init => KInv
  BY InitKInv
<1>2. IInv /\ KInv /\ [Next]_vars => KInv'
  BY NextKInv
<1>3. IInv /\ KInv => OneInstance /\ StatusAgrees /\ InboxAgrees
  BY KInvProperties
<1> QED
  BY <1>1, <1>2, <1>3, SpecInv, PTL DEF Spec

\* As long as the only command is kill, the restart loop of wait_app keeps one
\* process per application, whichever processes end, are killed or are caught
\* by the watchdog in between.
THEOREM SupervisionKeepsOneInstance ==
  ASSUME Command \subseteq {"kill"}
  PROVE  Spec => []OneInstance
<1>1. OneInstance /\ StatusAgrees /\ InboxAgrees => OneInstance
  OBVIOUS
<1> QED
  BY <1>1, SupervisionHolds, PTL

\* Under the same commands ps shows the process of every application whenever
\* no step is under way: the pid wait_app registers is the one it waits for.
THEOREM SupervisionKeepsStatus ==
  ASSUME Command \subseteq {"kill"}
  PROVE  Spec => []StatusAgrees
<1>1. OneInstance /\ StatusAgrees /\ InboxAgrees => StatusAgrees
  OBVIOUS
<1> QED
  BY <1>1, SupervisionHolds, PTL

\* ... and what is sent to an application reaches that process: the channel in
\* the map is the one spawn_app made for it.
THEOREM SupervisionKeepsInbox ==
  ASSUME Command \subseteq {"kill"}
  PROVE  Spec => []InboxAgrees
<1>1. OneInstance /\ StatusAgrees /\ InboxAgrees => InboxAgrees
  OBVIOUS
<1> QED
  BY <1>1, SupervisionHolds, PTL
==============================================================================
