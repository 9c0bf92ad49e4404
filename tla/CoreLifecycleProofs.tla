------------------------- MODULE CoreLifecycleProofs -------------------------
(***************************************************************************)
(* Proofs that the lifecycle of the core (CoreLifecycle) keeps what its    *)
(* runs check, for every set of calls, every budget and every platform.    *)
(* The invariant says, for each stage of the call that holds the lifecycle *)
(* lock, what that call may rely on: the code between two locks has no     *)
(* state of its own that says so.                                          *)
(***************************************************************************)
EXTENDS CoreLifecycle, FiniteSets, FiniteSetTheorems, TLAPS

-----------------------------------------------------------------------------
(* The invariant.                                                          *)

\* What the holder of the lifecycle lock is doing.  A holder that is idle has
\* left the application without giving the lock back.
Stage == IF lock = None THEN "free" ELSE op[lock].at
Abandoned == Stage = "idle"

StopPath == {"stop", "stopCore", "stopExit", "stopIpc"}
ServicePath == {"svcStart", "svcIpc", "svcStarted"}
SidecarPath == {"sideExit", "sideReserve", "sideSpawn", "sideProbe", "sideReady"}
Rising == ServicePath \cup SidecarPath \cup {"svcRefresh"}
StartPath == Rising \cup {"start", "decide", "startFailed", "started"}
ApplyPath == {"apply", "applyWrite", "applyCheck", "applyGuard", "applyRecheck", "applyUndo"}
Ends == {"ok", "failed"}
Held == StopPath \cup StartPath \cup ApplyPath
          \cup {"admit", "restage", "uninstall", "reinstall", "plan", "proxy", "rollback", "undo"}

\* The stages each kind of call passes through.
Route(k) ==
  CASE k = None        -> {"idle"}
    [] k = "start"     -> {"lock"} \cup StartPath \cup ApplyPath \cup Ends
    [] k = "stop"      -> {"lock"} \cup StopPath \cup Ends
    [] k = "restart"   -> {"lock", "plan"} \cup StopPath \cup StartPath \cup ApplyPath \cup Ends
    [] k = "continue"  -> {"write", "lock", "admit", "rollback"} \cup StartPath \cup ApplyPath \cup Ends
    [] k = "uninstall" -> {"write", "lock", "uninstall", "rollback"}
                            \cup StopPath \cup StartPath \cup ApplyPath \cup Ends
    [] k = "reinstall" -> {"lock", "reinstall"} \cup StopPath \cup Ends
    [] k = "update"    -> {"validate", "reload"} \cup Ends
    [] k = "sysproxy"  -> {"write", "lock", "proxy"} \cup ApplyPath \cup Ends
    [] k = "quit"      -> {"lock", "exit", "stay"} \cup StopPath \cup Ends
    [] k = "replace"   -> {"lock", "restage", "startFailed", "started"}
                            \cup StopPath \cup ServicePath \cup ApplyPath \cup Ends
    [] k = "undo"      -> {"stopCore", "stopExit", "stopIpc", "undo", "failed"}
    [] k = "leave"     -> {"lock"} \cup StopPath \cup Ends

\* A call is where its kind may be; it is past the lock exactly if it holds it.
CallsFit ==
  \A c \in Calls :
    /\ op[c].at \in Route(op[c].kind)
    /\ op[c].at \in Held \/ (op[c].at \in Ends /\ op[c].kind # "update") => lock = c
    /\ lock = c => op[c].at \in Held \cup Ends \/ (op[c].at = "idle" /\ exited # "no")

\* Calls that have not started the one child they may start.
Spawning == {"start", "restart", "continue", "uninstall", "update"}
Before == {"write", "lock", "validate", "reload", "admit", "uninstall", "plan", "start", "decide",
           "sideExit", "sideReserve", "sideSpawn"} \cup StopPath
Pending == {c \in Calls : op[c].kind \in Spawning /\ op[c].at \in Before}
SpawnsPaid == IsFiniteSet(Pending) /\ 2 * (spawned + Cardinality(Pending)) <= begun

\* Children: one that is born is read until it is dead.
ChildrenFit ==
  \A p \in Pids :
    /\ (proc[p] = "unborn") <=> (p > spawned)
    /\ (drain[p] = "unborn") <=> (p > spawned)
    /\ drain[p] \in {"told", "waiting", "done"} => proc[p] = "dead"

\* The reservation stands for the child that lives, or for the one to come.
ReservationFits ==
  /\ \A p \in Pids : Alive(p) => reservation = p
  /\ svcCore => reservation = 0
  /\ Stage = "sideSpawn" => reservation = spawned + 1

\* The mode the holder of the lock relies on, stage by stage.
ModeFits ==
  /\ Stage \in Rising \cup {"decide", "startFailed", "uninstall", "reinstall"} => mode = "NotRunning"
  /\ Stage \in {"applyWrite", "applyCheck", "applyGuard", "applyRecheck"} => mode # "NotRunning"
  /\ Stage = "stopIpc" => mode = "Service"
  /\ Stage = "undo" => mode # "Sidecar"
  /\ Stage = "ok" /\ op[lock].kind \in {"quit", "leave"} => mode = "NotRunning"
PacFits == pac = (mode # "NotRunning")

\* The guard runs beside a core, and has stopped before the core is stopped.
GuardFits ==
  /\ guard => mode # "NotRunning"
  /\ Stage \in {"stopCore", "stopExit", "stopIpc"} => ~guard

\* The child that is reported, or about to be.
Current == IF Stage \in {"sideProbe", "sideReady"} THEN spawned ELSE child
SidecarFits ==
  /\ IF Stage = "stopExit" THEN mode = "Sidecar" /\ child = 0
     ELSE (mode = "Sidecar") <=> (child # 0)
  /\ \A p \in Pids : proc[p] = "up" => p = Current
  /\ Stage \in {"sideProbe", "sideReady"} => Current # 0
  /\ Current # 0 => drain[Current] \notin {"unborn", "done"}
  /\ ready.active /\ Current # 0 => ready.gen = drainGen[Current]
  /\ ready.active /\ mode = "NotRunning" => Stage \in {"sideProbe", "sideReady"}

\* One monitor a generation; the current one, or the one whose claim made the
\* current one, watches the session of the core that runs.
MonitorsFit ==
  /\ monitors \subseteq [gen : Nat, sess : Nat, at : {"watching", "claimed", "waiting"},
                         why : Whys \cup {"nothing"}]
  /\ \A m, n \in monitors : m.gen = n.gen => m = n
  /\ \A m \in monitors : m.at # "watching" => m.gen < monGen
Witness(m) == m.sess = session /\ m.gen = (IF m.at = "watching" THEN monGen ELSE monGen - 1)
SessionFits ==
  /\ Stage = "svcStarted" => granted # 0
  /\ mode = "Service" =>
       /\ session # 0
       /\ \A m \in monitors :
            m.gen = monGen \/ (m.at # "watching" /\ m.gen + 1 = monGen) => m.sess = session
       /\ Stage # "stopIpc" => \E m \in monitors : Witness(m)

\* Once every quit has stopped the core, nothing starts it while is_exiting stands.
QuitsAgree ==
  /\ exited = "no" /\ exiting
  /\ \E c \in Calls : op[c].kind = "quit"
  /\ \A c \in Calls : op[c].kind \in {"quit", "leave"} => op[c].at = "exit"
QuitFits ==
  QuitsAgree =>
    /\ mode = "NotRunning" /\ \A p \in Pids : proc[p] # "up"
    /\ Stage \notin Rising
    /\ Stage \in StopPath => op[lock].kind # "replace"

CoreFits == ModeFits /\ PacFits /\ GuardFits /\ SidecarFits /\ SessionFits /\ QuitFits
IInv ==
  /\ TypeOK /\ CallsFit /\ SpawnsPaid
  /\ ChildrenFit /\ ReservationFits /\ MonitorsFit
  /\ Abandoned \/ CoreFits

-----------------------------------------------------------------------------
(* How the calls move.                                                     *)

AnyKind == Callable \cup {None, "replace", "undo", "leave"}
Expected == [mode : Modes, gen : Nat, mon : Nat]
CallRecord == [kind : AnyKind, at : Stages, handOver : BOOLEAN, seen : Expected]
OpType == op \in [Calls -> CallRecord]

\* Call c moves to stage s as an operation of kind k, and no other call moves.
Moved(c, k, s) ==
  /\ op'[c].kind = k /\ op'[c].at = s
  /\ \A d \in Calls \ {c} : op'[d] = op[d]

\* The assignments of the actions move one call.
LEMMA Moves ==
  ASSUME TypeOK, NEW c \in Calls
  PROVE  /\ \A s : Goto(c, s) => Moved(c, op[c].kind, s)
         /\ \A k, s : Become(c, k, s) => Moved(c, k, s)
         /\ \A s, e : op' = [op EXCEPT ![c].at = s, ![c].seen = e] => Moved(c, op[c].kind, s)
         /\ \A s, e : op' = [op EXCEPT ![c].at = s, ![c].handOver = e] => Moved(c, op[c].kind, s)
         /\ op' = [op EXCEPT ![c] = Idle] => Moved(c, None, "idle")
BY DEF TypeOK, Goto, Become, Idle, Moved

\* ... and leave every call a call.
LEMMA MovesTyped ==
  ASSUME OpType, NEW c \in Calls
  PROVE  /\ \A s \in Stages : Goto(c, s) => OpType'
         /\ \A k \in AnyKind, s \in Stages : Become(c, k, s) => OpType'
         /\ \A s \in Stages, e \in Expected :
              op' = [op EXCEPT ![c].at = s, ![c].seen = e] => OpType'
         /\ \A s \in Stages, e \in BOOLEAN :
              op' = [op EXCEPT ![c].at = s, ![c].handOver = e] => OpType'
         /\ \A r \in CallRecord : op' = [op EXCEPT ![c] = r] => OpType'
<1>1. ASSUME NEW s \in Stages, Goto(c, s) PROVE OpType'
  BY <1>1 DEF Goto, OpType, CallRecord
<1>2. ASSUME NEW k \in AnyKind, NEW s \in Stages, Become(c, k, s) PROVE OpType'
  BY <1>2 DEF Become, OpType, CallRecord
<1>3. ASSUME NEW s \in Stages, NEW e \in Expected, op' = [op EXCEPT ![c].at = s, ![c].seen = e]
      PROVE OpType'
  BY <1>3 DEF OpType, CallRecord
<1>4. ASSUME NEW s \in Stages, NEW e \in BOOLEAN, op' = [op EXCEPT ![c].at = s, ![c].handOver = e]
      PROVE OpType'
  BY <1>4 DEF OpType, CallRecord
<1>5. ASSUME NEW r \in CallRecord, op' = [op EXCEPT ![c] = r] PROVE OpType'
  BY <1>5 DEF OpType
<1> QED BY <1>1, <1>2, <1>3, <1>4, <1>5

\* Which kinds of call may be at a stage.
Belongs(k, s) ==
  /\ (k = None) <=> (s = "idle")
  /\ s = "admit" => k = "continue"
  /\ s = "restage" => k = "replace"
  /\ s = "plan" => k = "restart"
  /\ s = "proxy" => k = "sysproxy"
  /\ s = "undo" => k = "undo"
  /\ s \in {"uninstall", "reinstall"} => k = s
  /\ s = "rollback" => k \in ToSidecar
  /\ s \in {"validate", "reload"} => k = "update"
  /\ s \in {"start", "decide", "svcRefresh"} \cup SidecarPath
       => k \in {"start", "restart", "continue", "uninstall"}
  /\ s \in StartPath \cup ApplyPath
       => k \in {"start", "restart", "continue", "uninstall", "replace", "sysproxy"}
  /\ s \in {"exit", "stay"} => k = "quit"
  /\ k = "sysproxy" => s \notin StartPath \cup StopPath

\* A stage on the route of a kind belongs to calls of that kind.
LEMMA RouteKinds ==
  ASSUME NEW k \in AnyKind, NEW s \in Route(k) PROVE Belongs(k, s)
<1>1. k \in {None, "start", "stop", "restart", "continue", "uninstall", "reinstall", "update",
             "sysproxy", "quit", "replace", "undo", "leave"}
  BY DEF AnyKind, Callable, Flagged, ToSidecar
<1>2. None \notin {"start", "stop", "restart", "continue", "uninstall", "reinstall", "update",
                   "sysproxy", "quit", "replace", "undo", "leave"}
  BY LifecycleAssumption DEF Callable, Flagged, ToSidecar
<1> QED
  BY <1>1, <1>2, SMTT(30)
  DEF Belongs, Route, StartPath, ServicePath, SidecarPath, Rising, ApplyPath, Ends, StopPath,
      ToSidecar

\* Every call has a kind, and is at a stage that belongs to it.
LEMMA RouteBack ==
  ASSUME TypeOK, CallsFit, NEW c \in Calls
  PROVE  /\ op[c].kind \in AnyKind /\ op[c].at \in Route(op[c].kind)
         /\ Belongs(op[c].kind, op[c].at)
<1>1. op[c].kind \in AnyKind /\ op[c].at \in Route(op[c].kind)
  BY DEF TypeOK, AnyKind, CallsFit
<1> QED BY <1>1, RouteKinds

\* Where a call that holds the lifecycle lock may go from a stage.
Leads(k, s) ==
  /\ s = "admit" => {"start", "failed"} \subseteq Route(k)
  /\ s = "restage" => {"ok", "failed", "stop"} \subseteq Route(k)
  /\ s = "uninstall" => {"start", "rollback", GivesUp(k)} \subseteq Route(k)
  /\ s = "reinstall" => {"ok", GivesUp(k)} \subseteq Route(k)
  /\ s = "plan" => "stop" \in Route(k)
  /\ s = "stop" => {"stopCore", "failed"} \subseteq Route(k)
  /\ s = "stopCore" => {AfterStop(k), "stopExit", "stopIpc"} \subseteq Route(k)
  /\ s \in {"stopExit", "stopIpc"} => {AfterStop(k), "failed"} \subseteq Route(k)
  /\ s \in {"start", "decide", "svcRefresh"} \cup SidecarPath => StartPath \subseteq Route(k)
  /\ s \in ServicePath => ServicePath \cup {"startFailed", "started"} \subseteq Route(k)
  /\ s \in {"startFailed", "started"} \cup ApplyPath
       => {"ok", GivesUp(k)} \cup ApplyPath \subseteq Route(k)
  /\ s = "proxy" => {"apply", "ok", "failed"} \subseteq Route(k)
  /\ s = "rollback" => "failed" \in Route(k)
  /\ s = "undo" => "failed" \in Route(k)

\* Where a call may go from each stage of its route.
LEMMA RouteSteps ==
  ASSUME NEW k \in AnyKind, NEW s \in Route(k) PROVE Leads(k, s)
<1>1. k \in {None, "start", "stop", "restart", "continue", "uninstall", "reinstall", "update",
             "sysproxy", "quit", "replace", "undo", "leave"}
  BY DEF AnyKind, Callable, Flagged, ToSidecar
<1>2. None \notin {"start", "stop", "restart", "continue", "uninstall", "reinstall", "update",
                   "sysproxy", "quit", "replace", "undo", "leave"}
  BY LifecycleAssumption DEF Callable, Flagged, ToSidecar
<1>3. CASE k = None
  BY <1>2, <1>3
  DEF Leads, Route, StartPath, ServicePath, SidecarPath, Rising, ApplyPath, Ends, StopPath,
      ToSidecar, AfterStop, GivesUp
<1>4. CASE k = "start"
  BY <1>2, <1>4
  DEF Leads, Route, StartPath, ServicePath, SidecarPath, Rising, ApplyPath, Ends, StopPath,
      ToSidecar, AfterStop, GivesUp
<1>5. CASE k = "stop"
  BY <1>2, <1>5
  DEF Leads, Route, StartPath, ServicePath, SidecarPath, Rising, ApplyPath, Ends, StopPath,
      ToSidecar, AfterStop, GivesUp
<1>6. CASE k = "restart"
  BY <1>2, <1>6
  DEF Leads, Route, StartPath, ServicePath, SidecarPath, Rising, ApplyPath, Ends, StopPath,
      ToSidecar, AfterStop, GivesUp
<1>7. CASE k = "continue"
  BY <1>2, <1>7
  DEF Leads, Route, StartPath, ServicePath, SidecarPath, Rising, ApplyPath, Ends, StopPath,
      ToSidecar, AfterStop, GivesUp
<1>8. CASE k = "uninstall"
  BY <1>2, <1>8
  DEF Leads, Route, StartPath, ServicePath, SidecarPath, Rising, ApplyPath, Ends, StopPath,
      ToSidecar, AfterStop, GivesUp
<1>9. CASE k = "reinstall"
  BY <1>2, <1>9
  DEF Leads, Route, StartPath, ServicePath, SidecarPath, Rising, ApplyPath, Ends, StopPath,
      ToSidecar, AfterStop, GivesUp
<1>10. CASE k = "update"
  BY <1>2, <1>10
  DEF Leads, Route, StartPath, ServicePath, SidecarPath, Rising, ApplyPath, Ends, StopPath,
      ToSidecar, AfterStop, GivesUp
<1>11. CASE k = "sysproxy"
  BY <1>2, <1>11
  DEF Leads, Route, StartPath, ServicePath, SidecarPath, Rising, ApplyPath, Ends, StopPath,
      ToSidecar, AfterStop, GivesUp
<1>12. CASE k = "quit"
  BY <1>2, <1>12
  DEF Leads, Route, StartPath, ServicePath, SidecarPath, Rising, ApplyPath, Ends, StopPath,
      ToSidecar, AfterStop, GivesUp
<1>13. CASE k = "replace"
  BY <1>2, <1>13
  DEF Leads, Route, StartPath, ServicePath, SidecarPath, Rising, ApplyPath, Ends, StopPath,
      ToSidecar, AfterStop, GivesUp
<1>14. CASE k = "undo"
  BY <1>2, <1>14
  DEF Leads, Route, StartPath, ServicePath, SidecarPath, Rising, ApplyPath, Ends, StopPath,
      ToSidecar, AfterStop, GivesUp
<1>15. CASE k = "leave"
  BY <1>2, <1>15
  DEF Leads, Route, StartPath, ServicePath, SidecarPath, Rising, ApplyPath, Ends, StopPath,
      ToSidecar, AfterStop, GivesUp
<1> QED BY <1>1, <1>3, <1>4, <1>5, <1>6, <1>7, <1>8, <1>9, <1>10, <1>11, <1>12, <1>13, <1>14, <1>15
\* What the actions do whose assignments have a formula for a value.
LEMMA PlanMoves ==
  ASSUME TypeOK, NEW c \in Calls, Plan(c)
  PROVE  /\ Holds(c, "plan") /\ Moved(c, op[c].kind, "stop")
         /\ UNCHANGED <<locks, core, side, svc, owner, known, os, life>>
<1>1. /\ Holds(c, "plan") /\ UNCHANGED <<locks, core, side, svc, owner, known, os, life>>
      /\ \E e : op' = [op EXCEPT ![c].at = "stop", ![c].handOver = e]
  BY Zenon DEF Plan
<1> QED BY <1>1, Moves

\* Capture sees a core that runs, or ends the call.
LEMMA CaptureMoves ==
  ASSUME TypeOK, NEW c \in Calls, Capture(c)
  PROVE  /\ Holds(c, "apply")
         /\ \/ Moved(c, op[c].kind, GivesUp(op[c].kind))
            \/ Moved(c, op[c].kind, "ok")
            \/ Moved(c, op[c].kind, "applyWrite") /\ mode # "NotRunning"
         /\ UNCHANGED <<locks, core, side, svc, owner, known, os, life>>
<1>1. /\ Holds(c, "apply") /\ UNCHANGED <<locks, core, side, svc, owner, known, os, life>>
      /\ \/ Goto(c, GivesUp(op[c].kind))
         \/ Goto(c, "ok")
         \/ mode # "NotRunning" /\ \E e : op' = [op EXCEPT ![c].at = "applyWrite", ![c].seen = e]
  BY Zenon DEF Capture, Serving
<1> QED BY <1>1, Moves

\* A write of the system proxy can stop the guard, and never starts it.
LEMMA WriteKeeps ==
  ASSUME NEW v
  PROVE  /\ Written(v) => guard' = FALSE /\ enable' = enable
         /\ NotWritten => guard' \in {guard, FALSE} /\ enable' = enable
BY Zenon DEF Written, NotWritten

\* A recovery reports the core stopped, and ends the session and the guard.
LEMMA RecoverKeeps ==
  ASSUME NEW why, Recover(why)
  PROVE  session' = 0 /\ CoreStopped /\ guard' = FALSE /\ UNCHANGED enable
BY Zenon DEF Recover

\* The stop of the helper's core, as it went.
LEMMA StopIpcMoves ==
  ASSUME TypeOK, NEW c \in Calls, StopIpc(c)
  PROVE  /\ lock = c /\ op[c].at = "stopIpc"
         /\ UNCHANGED <<flag, writer, lock, side, granted, life, enable>>
         /\ \/ /\ session' = 0 /\ CoreStopped /\ guard' = FALSE
               /\ Moved(c, op[c].kind, "failed")
               /\ UNCHANGED <<served, svcCore, monGen, monitors>>
            \/ /\ session' = 0 /\ CoreStopped /\ UNCHANGED guard
               /\ Moved(c, op[c].kind, AfterStop(op[c].kind))
               /\ served' = 0 /\ svcCore' = FALSE
               /\ UNCHANGED <<monGen, monitors>>
            \/ /\ session' = session /\ StartMonitor
               /\ Moved(c, op[c].kind, "failed")
               /\ UNCHANGED <<core, guard>>
               /\ UNCHANGED <<served, svcCore>> \/ (served' = 0 /\ svcCore' = FALSE)
<1>1. /\ Holds(c, "stopIpc") /\ UNCHANGED <<locks, side, granted, life>>
      /\ \/ /\ Recover("Displaced") /\ Goto(c, "failed")
            /\ UNCHANGED <<served, svcCore, monGen, monitors>>
         \/ /\ session' = 0 /\ CoreStopped /\ UNCHANGED <<guard, enable>>
            /\ Goto(c, AfterStop(op[c].kind))
            /\ served' = 0 /\ svcCore' = FALSE
            /\ UNCHANGED <<monGen, monitors>>
         \/ /\ session' = session /\ StartMonitor /\ Goto(c, "failed")
            /\ UNCHANGED <<core, guard, enable>>
            /\ UNCHANGED <<served, svcCore>> \/ (served' = 0 /\ svcCore' = FALSE)
  <2>1. /\ Holds(c, "stopIpc") /\ UNCHANGED <<locks, side, granted, life>>
        /\ \/ /\ session # 0 /\ served = session
              /\ served' = 0 /\ svcCore' = FALSE
              /\ session' = 0 /\ CoreStopped
              /\ Goto(c, AfterStop(op[c].kind))
              /\ UNCHANGED <<monGen, monitors, known, enable, guard>>
           \/ /\ Recover("Displaced")
              /\ Goto(c, "failed")
              /\ UNCHANGED <<served, svcCore, monGen, monitors>>
           \/ /\ \/ UNCHANGED <<served, svcCore>>
                 \/ session # 0 /\ served = session /\ served' = 0 /\ svcCore' = FALSE
              /\ session' = session /\ StartMonitor
              /\ Goto(c, "failed")
              /\ UNCHANGED <<core, known, os>>
    BY Zenon DEF StopIpc
  <2> QED BY <2>1 DEF core, os
<1>2. Recover("Displaced") => session' = 0 /\ CoreStopped /\ guard' = FALSE /\ enable' = enable
  BY RecoverKeeps
<1> QED BY <1>1, <1>2, Moves DEF Holds, locks

\* The write of the settings by set_system_proxy, as it went.
LEMMA SetProxyMoves ==
  ASSUME TypeOK, NEW c \in Calls, SetProxy(c)
  PROVE  /\ Holds(c, "proxy")
         /\ guard' \in {guard, FALSE}
         /\ \/ Moved(c, op[c].kind, "apply")
            \/ Moved(c, op[c].kind, "ok")
            \/ Moved(c, op[c].kind, "failed")
         /\ UNCHANGED <<locks, core, side, svc, owner, known, enable, life>>
<1>1. /\ Holds(c, "proxy") /\ UNCHANGED <<locks, core, side, svc, owner, known, life>>
      /\ \/ Goto(c, "apply") /\ UNCHANGED os
         \/ Written(FALSE) /\ Goto(c, "ok")
         \/ NotWritten /\ Goto(c, "failed")
  BY Zenon DEF SetProxy
<1>2. UNCHANGED os => guard' = guard /\ enable' = enable
  BY DEF os
<1>3. guard' \in {guard, FALSE} /\ enable' = enable
  BY <1>1, <1>2, WriteKeeps
<1> QED BY <1>1, <1>3, Moves

\* What an action of the holder of the lifecycle lock does to the calls.
HolderStep(c) ==
  /\ lock = c /\ lock' = c /\ UNCHANGED life /\ op[c].at \in Held
  /\ \E k \in AnyKind, s \in Held \cup Ends :
       /\ Moved(c, k, s) /\ s \in Route(k)
       /\ k = op[c].kind \/ (op[c].at = "rollback" /\ k = "undo")
       /\ k \in Spawning /\ s \in Before => c \in Pending
       /\ s = "sideSpawn" => SidecarReserve(c)

\* It is enough that the stage is one of those the stage before leads to.
LEMMA HolderGoes ==
  ASSUME TypeOK, CallsFit, NEW c \in Calls, NEW t \in Held, NEW s, Holds(c, t),
         lock' = lock, UNCHANGED life, Moved(c, op[c].kind, s),
         s \in Route(op[c].kind) \cap (Held \cup Ends),
         op[c].kind \in Spawning /\ s \in Before => t \in Before,
         s = "sideSpawn" => SidecarReserve(c)
  PROVE  HolderStep(c)
BY DEF TypeOK, AnyKind, Holds, HolderStep, Pending

\* The actions of the call that holds the lifecycle lock.
Locked(c) ==
  \/ Admit(c) \/ Restage(c) \/ SetUp(c) \/ Plan(c) \/ StopProxy(c)
  \/ StopCore(c) \/ StopExit(c) \/ StopIpc(c) \/ Start(c) \/ Decide(c)
  \/ StartFailed(c) \/ ServiceRefresh(c) \/ ServiceStart(c) \/ ServiceIpc(c) \/ ServiceStarted(c)
  \/ SidecarExit(c) \/ SidecarReserve(c) \/ SidecarSpawn(c) \/ SidecarProbe(c) \/ SidecarReady(c)
  \/ Started(c) \/ Capture(c) \/ ApplyWrite(c) \/ ApplyCheck(c) \/ ApplyGuard(c)
  \/ ApplyRecheck(c) \/ ApplyUndo(c) \/ SetProxy(c) \/ RollBack(c) \/ Undo(c)

\* From the end of a start on, a call can only apply the proxy, end or give up.
LEMMA ApplyGoes ==
  ASSUME TypeOK, CallsFit, NEW c \in Calls, NEW t \in {"startFailed", "started"} \cup ApplyPath,
         NEW s \in {"ok", GivesUp(op[c].kind)} \cup ApplyPath, Holds(c, t),
         lock' = lock, UNCHANGED life, Moved(c, op[c].kind, s)
  PROVE  HolderStep(c)
<1>1. s \in Route(op[c].kind)
  <2>1. Leads(op[c].kind, t)
    BY RouteBack, RouteSteps DEF Holds
  <2> QED BY <2>1 DEF Leads
<1>2. /\ s \in Held \cup Ends /\ s \notin Before /\ s # "sideSpawn" /\ t \in Held
  BY DEF GivesUp, Held, Ends, Before, StopPath, StartPath, ApplyPath
<1> QED BY <1>1, <1>2, HolderGoes

\* Each action of the holder leads where the stage before it leads.
LEMMA HolderMoves ==
  ASSUME TypeOK, CallsFit, NEW c \in Calls, Locked(c)
  PROVE  HolderStep(c)
<1>0. Belongs(op[c].kind, op[c].at) /\ Leads(op[c].kind, op[c].at)
  BY RouteBack, RouteSteps
<1>1. CASE Admit(c)
  BY <1>0, <1>1, Moves, HolderGoes
  DEF Admit, Belongs, Leads, AfterStop, GivesUp, Holds, locks, life, Held, Ends, Before, Spawning,
      StopPath, StartPath, Rising, ServicePath, SidecarPath, ApplyPath, ToSidecar
<1>2. CASE Restage(c)
  BY <1>0, <1>2, Moves, HolderGoes
  DEF Restage, Belongs, Leads, AfterStop, GivesUp, Holds, locks, life, Held, Ends, Before,
      Spawning, StopPath, StartPath, Rising, ServicePath, SidecarPath, ApplyPath, ToSidecar
<1>3. CASE SetUp(c)
  BY <1>0, <1>3, Moves, HolderGoes
  DEF SetUp, Belongs, Leads, AfterStop, GivesUp, Holds, locks, life, Held, Ends, Before, Spawning,
      StopPath, StartPath, Rising, ServicePath, SidecarPath, ApplyPath, ToSidecar
<1>4. CASE Plan(c)
  BY <1>0, <1>4, PlanMoves, HolderGoes
  DEF Belongs, Leads, AfterStop, GivesUp, Holds, locks, life, Held, Ends, Before, Spawning,
      StopPath, StartPath, Rising, ServicePath, SidecarPath, ApplyPath, ToSidecar
<1>5. CASE StopProxy(c)
  BY <1>0, <1>5, Moves, HolderGoes
  DEF StopProxy, Belongs, Leads, AfterStop, GivesUp, Holds, locks, life, Held, Ends, Before,
      Spawning, StopPath, StartPath, Rising, ServicePath, SidecarPath, ApplyPath, ToSidecar
<1>6. CASE StopCore(c)
  BY <1>0, <1>6, Moves, HolderGoes
  DEF StopCore, Belongs, Leads, AfterStop, GivesUp, Holds, locks, life, Held, Ends, Before,
      Spawning, StopPath, StartPath, Rising, ServicePath, SidecarPath, ApplyPath, ToSidecar
<1>7. CASE StopExit(c)
  BY <1>0, <1>7, Moves, HolderGoes
  DEF StopExit, Belongs, Leads, AfterStop, GivesUp, Holds, locks, life, Held, Ends, Before,
      Spawning, StopPath, StartPath, Rising, ServicePath, SidecarPath, ApplyPath, ToSidecar
<1>8. CASE StopIpc(c)
  <2>1. /\ Holds(c, "stopIpc") /\ lock' = lock /\ UNCHANGED life
        /\ Moved(c, op[c].kind, "failed") \/ Moved(c, op[c].kind, AfterStop(op[c].kind))
    BY <1>8, StopIpcMoves DEF Holds
  <2>2. /\ {AfterStop(op[c].kind), "failed"} \subseteq Route(op[c].kind)
        /\ AfterStop(op[c].kind) \in {"ok", "start", "svcStart", "uninstall", "reinstall", "undo"}
    BY <1>0, <2>1 DEF Leads, Holds, AfterStop
  <2>3. /\ {"ok", "failed", "start", "svcStart", "uninstall", "reinstall", "undo"} \subseteq Held \cup Ends
        /\ "stopIpc" \in Held \cap Before
    BY DEF Held, Ends, Before, StopPath, StartPath, Rising, ServicePath
  <2> QED BY <2>1, <2>2, <2>3, HolderGoes
<1>9. CASE Start(c)
  BY <1>0, <1>9, Moves, HolderGoes
  DEF Start, Belongs, Leads, AfterStop, GivesUp, Holds, locks, life, Held, Ends, Before, Spawning,
      StopPath, StartPath, Rising, ServicePath, SidecarPath, ApplyPath, ToSidecar
<1>10. CASE Decide(c)
  BY <1>0, <1>10, Moves, HolderGoes
  DEF Decide, Belongs, Leads, AfterStop, GivesUp, Holds, locks, life, Held, Ends, Before, Spawning,
      StopPath, StartPath, Rising, ServicePath, SidecarPath, ApplyPath, ToSidecar
<1>11. CASE StartFailed(c)
  BY <1>11, Moves, ApplyGoes DEF StartFailed, Holds, locks, life, ApplyPath
<1>12. CASE ServiceRefresh(c)
  BY <1>0, <1>12, Moves, HolderGoes
  DEF ServiceRefresh, Belongs, Leads, AfterStop, GivesUp, Holds, locks, life, Held, Ends, Before,
      Spawning, StopPath, StartPath, Rising, ServicePath, SidecarPath, ApplyPath, ToSidecar
<1>13. CASE ServiceStart(c)
  BY <1>0, <1>13, Moves, HolderGoes
  DEF ServiceStart, Belongs, Leads, AfterStop, GivesUp, Holds, locks, life, Held, Ends, Before,
      Spawning, StopPath, StartPath, Rising, ServicePath, SidecarPath, ApplyPath, ToSidecar
<1>14. CASE ServiceIpc(c)
  BY <1>0, <1>14, Moves, HolderGoes
  DEF ServiceIpc, Belongs, Leads, AfterStop, GivesUp, Holds, locks, life, Held, Ends, Before,
      Spawning, StopPath, StartPath, Rising, ServicePath, SidecarPath, ApplyPath, ToSidecar
<1>15. CASE ServiceStarted(c)
  BY <1>0, <1>15, Moves, HolderGoes
  DEF ServiceStarted, Belongs, Leads, AfterStop, GivesUp, Holds, locks, life, Held, Ends, Before,
      Spawning, StopPath, StartPath, Rising, ServicePath, SidecarPath, ApplyPath, ToSidecar
<1>16. CASE SidecarExit(c)
  BY <1>0, <1>16, Moves, HolderGoes
  DEF SidecarExit, Belongs, Leads, AfterStop, GivesUp, Holds, locks, life, Held, Ends, Before,
      Spawning, StopPath, StartPath, Rising, ServicePath, SidecarPath, ApplyPath, ToSidecar
<1>17. CASE SidecarReserve(c)
  BY <1>0, <1>17, Moves, HolderGoes
  DEF SidecarReserve, Belongs, Leads, AfterStop, GivesUp, Holds, locks, life, Held, Ends, Before,
      Spawning, StopPath, StartPath, Rising, ServicePath, SidecarPath, ApplyPath, ToSidecar
<1>18. CASE SidecarSpawn(c)
  BY <1>0, <1>18, Moves, HolderGoes
  DEF SidecarSpawn, Belongs, Leads, AfterStop, GivesUp, Holds, locks, life, Held, Ends, Before,
      Spawning, StopPath, StartPath, Rising, ServicePath, SidecarPath, ApplyPath, ToSidecar
<1>19. CASE SidecarProbe(c)
  BY <1>0, <1>19, Moves, HolderGoes
  DEF SidecarProbe, Belongs, Leads, AfterStop, GivesUp, Holds, locks, life, Held, Ends, Before,
      Spawning, StopPath, StartPath, Rising, ServicePath, SidecarPath, ApplyPath, ToSidecar
<1>20. CASE SidecarReady(c)
  BY <1>0, <1>20, Moves, HolderGoes
  DEF SidecarReady, Belongs, Leads, AfterStop, GivesUp, Holds, locks, life, Held, Ends, Before,
      Spawning, StopPath, StartPath, Rising, ServicePath, SidecarPath, ApplyPath, ToSidecar
<1>21. CASE Started(c)
  BY <1>21, Moves, ApplyGoes DEF Started, Holds, locks, life, ApplyPath
<1>22. CASE Capture(c)
  BY <1>22, CaptureMoves, ApplyGoes DEF Holds, locks, life, ApplyPath
<1>23. CASE ApplyWrite(c)
  BY <1>23, Moves, ApplyGoes DEF ApplyWrite, Holds, locks, life, ApplyPath
<1>24. CASE ApplyCheck(c)
  BY <1>24, Moves, ApplyGoes DEF ApplyCheck, Holds, locks, life, ApplyPath
<1>25. CASE ApplyGuard(c)
  BY <1>25, Moves, ApplyGoes DEF ApplyGuard, Holds, locks, life, ApplyPath
<1>26. CASE ApplyRecheck(c)
  BY <1>26, Moves, ApplyGoes DEF ApplyRecheck, Holds, locks, life, ApplyPath
<1>27. CASE ApplyUndo(c)
  BY <1>27, Moves, ApplyGoes DEF ApplyUndo, Holds, locks, life, ApplyPath
<1>28. CASE SetProxy(c)
  <2>1. /\ Holds(c, "proxy") /\ lock' = lock /\ UNCHANGED life /\ op[c].kind = "sysproxy"
        /\ \E s \in {"apply", "ok", "failed"} : Moved(c, op[c].kind, s)
    BY <1>0, <1>28, SetProxyMoves DEF Holds, Belongs, locks
  <2>2. {"apply", "ok", "failed"} \subseteq Route(op[c].kind)
    BY <1>0, <2>1 DEF Leads, Holds
  <2>3. /\ {"apply", "ok", "failed"} \subseteq Held \cup Ends /\ "proxy" \in Held
        /\ {"apply", "ok", "failed"} \cap Before = {}
    BY DEF Held, Ends, Before, ApplyPath, StopPath
  <2> QED BY <2>1, <2>2, <2>3, HolderGoes
<1>29. CASE RollBack(c)
  <2>1. /\ Holds(c, "rollback") /\ UNCHANGED <<locks, life>>
        /\ Become(c, "undo", "undo") \/ Become(c, "undo", "stopCore") \/ Goto(c, "failed")
    BY <1>29, Zenon DEF RollBack
  <2>2. CASE Goto(c, "failed")
    BY <1>0, <2>1, <2>2, Moves, HolderGoes DEF Leads, Holds, locks, Held, Ends, Before, StopPath
  <2>3. CASE Become(c, "undo", "undo") \/ Become(c, "undo", "stopCore")
    <3>1. "undo" \in AnyKind \ Spawning /\ {"undo", "stopCore"} \subseteq Route("undo") \cap Held
      BY LifecycleAssumption DEF AnyKind, Spawning, Route, Held, StopPath
    <3>2. \E s \in {"undo", "stopCore"} : Moved(c, "undo", s)
      BY <2>3, Moves
    <3> QED BY <2>1, <3>1, <3>2 DEF HolderStep, Holds, locks, Held
  <2> QED BY <2>1, <2>2, <2>3
<1>30. CASE Undo(c)
  BY <1>0, <1>30, Moves, HolderGoes
  DEF Undo, Belongs, Leads, AfterStop, GivesUp, Holds, locks, life, Held, Ends, Before, Spawning,
      StopPath, StartPath, Rising, ServicePath, SidecarPath, ApplyPath, ToSidecar
<1> QED BY <1>1, <1>2, <1>3, <1>4, <1>5, <1>6, <1>7, <1>8, <1>9, <1>10, <1>11, <1>12, <1>13, <1>14,
      <1>15, <1>16, <1>17, <1>18, <1>19, <1>20, <1>21, <1>22, <1>23, <1>24, <1>25, <1>26, <1>27,
      <1>28, <1>29, <1>30 DEF Locked

\* The actions of a call that neither take the lifecycle lock nor use it: they
\* leave the core alone, and give the lock back or abandon it at most.
Aside(c) ==
  \/ LockWrite(c) \/ Validate(c) \/ Reload(c) \/ Return(c) \/ Cleaned(c) \/ Exit(c) \/ Left(c)
  \/ \E k \in Kinds : Begin(c, k)

AsideStep(c) ==
  /\ UNCHANGED <<core, side, svc, owner, known, guard>>
  /\ exited # "no" => exited' # "no"
  /\ \E k \in AnyKind, s \in Stages \ Held :
       /\ Moved(c, k, s) /\ s \in Route(k)
       /\ s \in Ends => k = "update"
       /\ \/ begun' = begun /\ (k \in Spawning /\ s \in Before => c \in Pending)
          \/ begun' \in Nat /\ begun' >= begun + 2
  /\ \/ lock # c /\ lock' = lock
     \/ lock = c /\ lock' = None /\ op[c].at \in Ends
     \/ lock = c /\ lock' = c /\ op'[c].at = "idle" /\ exited' # "no"

\* A call begins idle, pays its cost, and sets is_exiting if it is a quit.
LEMMA BeginMoves ==
  ASSUME TypeOK, NEW c \in Calls, NEW k \in Kinds, Begin(c, k)
  PROVE  /\ op[c].kind = None /\ exited = "no" /\ exited' = exited /\ begun' = begun + Cost(k)
         /\ \E s : /\ s = IF k \in ToSidecar \cup {"sysproxy"} THEN "write"
                          ELSE IF k = "update" THEN "validate" ELSE "lock"
                   /\ op' = [op EXCEPT ![c] = [Idle EXCEPT !.kind = k, !.at = s]]
         /\ exiting' = exiting \/ k = "quit"
         /\ UNCHANGED <<lock, core, side, svc, owner, known, guard>>
<1>1. /\ op[c].kind = None /\ exited = "no" /\ begun' = begun + Cost(k)
      /\ exiting' = (exiting \/ k = "quit")
      /\ UNCHANGED <<writer, lock, core, side, svc, owner, known, os, exited>>
      /\ \E s : /\ s = IF k \in ToSidecar \cup {"sysproxy"} THEN "write"
                          ELSE IF k = "update" THEN "validate" ELSE "lock"
                /\ op' = [op EXCEPT ![c] = [Idle EXCEPT !.kind = k, !.at = s]]
  BY Zenon DEF Begin
<1>2. exiting' = exiting \/ k = "quit"
  <2>1. CASE k = "quit" BY <2>1
  <2>2. CASE k # "quit"
    <3>1. exiting' = (exiting \/ FALSE) BY <1>1, <2>2, Zenon
    <3> QED BY <3>1, Zenon DEF TypeOK
  <2> QED BY <2>1, <2>2
<1>3. UNCHANGED <<lock, core, side, svc, owner, known, guard>> /\ exited' = exited
  BY <1>1 DEF os
<1> QED BY <1>1, <1>2, <1>3, Zenon

\* A call that takes the write lock only moves on to the lifecycle lock.
LEMMA LockWriteMoves ==
  ASSUME NEW c \in Calls, LockWrite(c)
  PROVE  /\ op[c].at = "write" /\ Goto(c, "lock") /\ op[c].kind \in ToSidecar \cup {"sysproxy"}
         /\ UNCHANGED <<lock, core, side, svc, owner, known, guard, life>>
<1>1. /\ op[c].at = "write" /\ Goto(c, "lock")
      /\ op[c].kind \in ToSidecar \/ op[c].kind = "sysproxy"
      /\ UNCHANGED <<flag, lock, core, side, svc, owner, known, proxy, guard, life>>
  BY Zenon DEF LockWrite
<1> QED BY <1>1

\* A call that returns gives its locks back and is idle.
LEMMA ReturnMoves ==
  ASSUME NEW c \in Calls, Return(c)
  PROVE  /\ op[c].at \in Ends /\ op[c].kind \notin {"quit", "leave"}
         /\ op' = [op EXCEPT ![c] = Idle]
         /\ lock' = IF lock = c THEN None ELSE lock
         /\ UNCHANGED <<core, side, svc, owner, known, guard, life>>
<1>1. /\ op[c].at \in Ends /\ op[c].kind \notin {"quit", "leave"}
      /\ op' = [op EXCEPT ![c] = Idle]
      /\ lock' = IF lock = c THEN None ELSE lock
      /\ UNCHANGED <<core, side, svc, owner, known, proxy, guard, life>>
  BY Zenon DEF Return, Ends
<1> QED BY <1>1

\* The actions of a call that takes part in a quit.
LEMMA QuitMoves ==
  ASSUME TypeOK, NEW c \in Calls
  PROVE  /\ Cleaned(c) =>
              /\ op[c].kind = "quit" /\ lock = c /\ lock' = None
              /\ \/ op[c].at = "ok" /\ Moved(c, "quit", "exit")
                 \/ op[c].at = "failed" /\ Moved(c, "quit", "stay")
              /\ UNCHANGED <<core, side, svc, owner, known, guard, life>>
         /\ Exit(c) =>
              /\ \/ op[c].at = "stay" /\ ~exiting' /\ Moved(c, None, "idle") /\ exited' = exited
                 \/ /\ op[c].at = "exit" /\ exiting /\ exited' = "clean" /\ Moved(c, None, "idle")
                 \/ op[c].at = "exit" /\ Moved(c, "leave", "lock") /\ exited' = exited
              /\ UNCHANGED <<lock, core, side, svc, owner, known, guard, begun>>
         /\ Left(c) =>
              /\ op[c].kind = "leave" /\ Moved(c, None, "idle")
              /\ \/ op[c].at = "ok" /\ exited' = "clean" /\ lock' = None
                 \/ op[c].at # "ok" /\ exited' = "dirty" /\ UNCHANGED lock
              /\ UNCHANGED <<core, side, svc, owner, known, guard, begun>>
<1>1. ASSUME Cleaned(c)
      PROVE  /\ op[c].kind = "quit" /\ lock = c /\ lock' = None
             /\ \/ op[c].at = "ok" /\ Moved(c, "quit", "exit")
                \/ op[c].at = "failed" /\ Moved(c, "quit", "stay")
             /\ UNCHANGED <<core, side, svc, owner, known, guard, life>>
  BY <1>1, Moves DEF Cleaned, os
<1>2. ASSUME Exit(c)
      PROVE  /\ \/ op[c].at = "stay" /\ ~exiting' /\ Moved(c, None, "idle") /\ exited' = exited
                \/ /\ op[c].at = "exit" /\ exiting /\ exited' = "clean" /\ Moved(c, None, "idle")
                \/ op[c].at = "exit" /\ Moved(c, "leave", "lock") /\ exited' = exited
             /\ UNCHANGED <<lock, core, side, svc, owner, known, guard, begun>>
  <2>1. /\ \/ op[c].at = "stay" /\ exiting' = FALSE /\ op' = [op EXCEPT ![c] = Idle] /\ UNCHANGED exited
           \/ /\ op[c].at = "exit" /\ exiting /\ exited' = "clean"
              /\ op' = [op EXCEPT ![c] = Idle]
           \/ op[c].at = "exit" /\ Become(c, "leave", "lock") /\ UNCHANGED exited
        /\ UNCHANGED <<locks, core, side, svc, owner, known, os, begun>>
    BY <1>2, Zenon DEF Exit
  <2>2. UNCHANGED <<lock, core, side, svc, owner, known, guard, begun>>
    BY <2>1 DEF locks, os
  <2>3. CASE op[c].at = "stay" /\ exiting' = FALSE /\ op' = [op EXCEPT ![c] = Idle] /\ UNCHANGED exited
    BY <2>2, <2>3, Moves
  <2>4. CASE op[c].at = "exit" /\ exiting /\ exited' = "clean" /\ op' = [op EXCEPT ![c] = Idle]
    BY <2>2, <2>4, Moves
  <2>5. CASE op[c].at = "exit" /\ Become(c, "leave", "lock") /\ UNCHANGED exited
    BY <2>2, <2>5, Moves
  <2> QED BY <2>1, <2>3, <2>4, <2>5
<1>3. ASSUME Left(c)
      PROVE  /\ op[c].kind = "leave" /\ Moved(c, None, "idle")
             /\ \/ op[c].at = "ok" /\ exited' = "clean" /\ lock' = None
                \/ op[c].at # "ok" /\ exited' = "dirty" /\ UNCHANGED lock
             /\ UNCHANGED <<core, side, svc, owner, known, guard, begun>>
  BY <1>3, Moves DEF Left, os
<1> QED BY <1>1, <1>2, <1>3

\* What the actions beside the lifecycle lock leave of the calls.
LEMMA AsideMoves ==
  ASSUME TypeOK, CallsFit, NEW c \in Calls, Aside(c) PROVE AsideStep(c)
<1>0. /\ op[c].kind \in AnyKind /\ op[c].at \in Route(op[c].kind) /\ Belongs(op[c].kind, op[c].at)
      /\ begun \in Nat /\ None \in AnyKind /\ "idle" \in Route(None)
      /\ lock = c => op[c].at \in Held \cup Ends \/ (op[c].at = "idle" /\ exited # "no")
      /\ op[c].at \in Ends /\ op[c].kind # "update" => lock = c
  <2>1. op[c].kind \in AnyKind /\ op[c].at \in Route(op[c].kind) /\ Belongs(op[c].kind, op[c].at)
    BY RouteBack
  <2>2. begun \in Nat /\ None \in AnyKind /\ "idle" \in Route(None)
    BY LifecycleAssumption DEF TypeOK, AnyKind, Route, Callable, Flagged, ToSidecar
  <2>3. /\ lock = c => op[c].at \in Held \cup Ends \/ (op[c].at = "idle" /\ exited # "no")
        /\ op[c].at \in Ends /\ op[c].kind # "update" => lock = c
    BY DEF CallsFit
  <2> QED BY <2>1, <2>2, <2>3
<1>1. {"write", "validate", "reload", "lock", "exit", "stay", "idle"} \subseteq Stages \ (Held \cup Ends)
      /\ Ends \subseteq Stages \ Held
  BY DEF Stages, Held, Ends, StopPath, StartPath, ApplyPath, Rising, ServicePath, SidecarPath
<1>2. /\ "lock" \in Route("continue") /\ "lock" \in Route("uninstall") /\ "lock" \in Route("sysproxy")
      /\ "lock" \in Route("replace") /\ "lock" \in Route("restart") /\ "lock" \in Route("leave")
      /\ {"reload", "ok", "failed"} \subseteq Route("update") /\ {"exit", "stay"} \subseteq Route("quit")
      /\ {"replace", "restart", "leave", "update", "quit"} \subseteq AnyKind
  BY LifecycleAssumption DEF Route, AnyKind, Callable, Flagged, ToSidecar, Ends
<1>3. /\ {"write", "lock", "validate", "reload"} \subseteq Before
      /\ {"exit", "stay", "idle", "ok", "failed"} \cap Before = {}
      /\ {"leave", "replace", "quit", None} \cap Spawning = {} /\ {"update", "restart"} \subseteq Spawning
  BY LifecycleAssumption DEF Before, Spawning, StopPath, Callable, Flagged, ToSidecar
<1>4. CASE LockWrite(c)
  <2>1. Moved(c, op[c].kind, "lock") /\ lock # c /\ "lock" \in Route(op[c].kind) /\ op[c].at = "write"
    BY <1>0, <1>1, <1>2, <1>4, LockWriteMoves, Moves DEF ToSidecar
  <2>2. UNCHANGED <<lock, core, side, svc, owner, known, guard, life>>
    BY <1>4, LockWriteMoves
  <2> QED BY <1>0, <1>1, <1>3, <2>1, <2>2 DEF AsideStep, life, Pending, Ends
<1>5. CASE Validate(c)
  <2>1. /\ op[c].at = "validate" /\ op[c].kind = "update" /\ lock # c
        /\ UNCHANGED <<lock, core, side, svc, owner, known, guard, life>>
        /\ \/ Moved(c, "update", "failed") \/ Moved(c, "update", "reload")
           \/ Moved(c, "replace", "lock")
    BY <1>0, <1>1, <1>5, Moves DEF Validate, Belongs, locks, os
  <2> QED BY <1>0, <1>1, <1>2, <1>3, <2>1 DEF AsideStep, life, Pending, Ends
<1>6. CASE Reload(c)
  <2>1. /\ op[c].at = "reload" /\ op[c].kind = "update" /\ lock # c
        /\ UNCHANGED <<lock, core, side, svc, owner, known, guard, life>>
        /\ Moved(c, "update", "ok") \/ Moved(c, "restart", "lock")
    BY <1>0, <1>1, <1>6, Moves DEF Reload, Belongs, locks, os
  <2> QED BY <1>0, <1>1, <1>2, <1>3, <2>1 DEF AsideStep, life, Pending, Ends
<1>7. CASE Return(c)
  <2>1. /\ op[c].at \in Ends /\ Moved(c, None, "idle") /\ lock' = IF lock = c THEN None ELSE lock
        /\ UNCHANGED <<core, side, svc, owner, known, guard, life>>
    BY <1>7, ReturnMoves, Moves
  <2> QED BY <1>0, <1>1, <1>3, <2>1 DEF AsideStep, life, Ends
<1>8. CASE Cleaned(c)
  <2>1. /\ lock = c /\ lock' = None /\ op[c].at \in Ends
        /\ Moved(c, "quit", "exit") \/ Moved(c, "quit", "stay")
        /\ UNCHANGED <<core, side, svc, owner, known, guard, life>>
    BY <1>8, QuitMoves DEF Ends
  <2> QED BY <1>0, <1>1, <1>2, <1>3, <2>1 DEF AsideStep, life, Ends
<1>9. CASE Exit(c)
  <2>1. /\ lock # c /\ lock' = lock
        /\ Moved(c, None, "idle") \/ Moved(c, "leave", "lock")
        /\ UNCHANGED <<core, side, svc, owner, known, guard, begun>>
        /\ exited # "no" => exited' # "no"
    BY <1>0, <1>1, <1>9, QuitMoves
  <2> QED BY <1>0, <1>1, <1>2, <1>3, <2>1 DEF AsideStep, Ends
<1>10. CASE Left(c)
  <2>1. /\ Moved(c, None, "idle") /\ exited' # "no"
        /\ UNCHANGED <<core, side, svc, owner, known, guard, begun>>
        /\ \/ lock = c /\ lock' = None /\ op[c].at \in Ends
           \/ lock' = lock
    BY <1>0, <1>10, QuitMoves DEF Ends
  <2> QED BY <1>0, <1>1, <1>3, <2>1 DEF AsideStep, Ends, Moved
<1>11. ASSUME NEW k \in Kinds, Begin(c, k) PROVE AsideStep(c)
  <2>1. PICK s : /\ s = IF k \in ToSidecar \cup {"sysproxy"} THEN "write"
                        ELSE IF k = "update" THEN "validate" ELSE "lock"
                 /\ op' = [op EXCEPT ![c] = [Idle EXCEPT !.kind = k, !.at = s]]
    BY <1>11, BeginMoves
  <2>2. Moved(c, k, s)
    BY <2>1 DEF TypeOK, Idle, Moved
  <2>3. k \in Callable /\ s \in Route(k)
    BY <2>1, LifecycleAssumption DEF Route, Callable, Flagged, ToSidecar
  <2>4. lock # c /\ UNCHANGED <<lock, exited, core, side, svc, owner, known, guard>>
    BY <1>0, <1>1, <1>11, BeginMoves DEF Belongs
  <2>5. begun' \in Nat /\ begun' >= begun + 2
    <3>1. begun' = begun + Cost(k)
      BY <1>11, BeginMoves
    <3> QED BY <1>0, <3>1 DEF Cost
  <2> QED BY <1>1, <2>1, <2>2, <2>3, <2>4, <2>5 DEF AsideStep, AnyKind
<1> QED BY <1>4, <1>5, <1>6, <1>7, <1>8, <1>9, <1>10, <1>11 DEF Aside

\* A call takes the lifecycle lock.
LEMMA LockMoves ==
  ASSUME TypeOK, CallsFit, NEW c \in Calls, LockLifecycle(c)
  PROVE  /\ lock = None /\ lock' = c /\ op[c].at = "lock"
         /\ Moved(c, op[c].kind, FirstStage(op[c].kind))
         /\ FirstStage(op[c].kind) \in Route(op[c].kind) \cap {"start", "plan", "admit", "restage", "proxy", "stop"}
         /\ op[c].kind = "replace" => FirstStage(op[c].kind) = "restage"
         /\ UNCHANGED <<flag, writer, core, side, svc, owner, known, os, life>>
<1>1. /\ op[c].kind \in AnyKind /\ op[c].at \in Route(op[c].kind) /\ op[c].at = "lock"
      /\ Goto(c, FirstStage(op[c].kind)) /\ lock = None /\ lock' = c
      /\ UNCHANGED <<flag, writer, core, side, svc, owner, known, os, life>>
  BY RouteBack DEF LockLifecycle
<1>2. ASSUME NEW k \in AnyKind, "lock" \in Route(k)
      PROVE  /\ FirstStage(k) \in Route(k) \cap {"start", "plan", "admit", "restage", "proxy", "stop"}
             /\ k = "replace" => FirstStage(k) = "restage"
  <2>1. k \in {None, "start", "stop", "restart", "continue", "uninstall", "reinstall", "update",
               "sysproxy", "quit", "replace", "undo", "leave"}
    BY DEF AnyKind, Callable, Flagged, ToSidecar
  <2>2. None \notin {"start", "stop", "restart", "continue", "uninstall", "reinstall", "update",
                     "sysproxy", "quit", "replace", "undo", "leave"}
    BY LifecycleAssumption DEF Callable, Flagged, ToSidecar
  <2> QED BY <1>2, <2>1, <2>2 DEF Route, FirstStage, StartPath, StopPath, Ends
<1> QED BY <1>1, <1>2, Moves

\* Every action of a call is one of the holder's, one beside it, or takes the lock.
LEMMA WorkCases ==
  ASSUME TypeOK, CallsFit, NEW c \in Calls, Work(c)
  PROVE  (HolderStep(c) /\ Locked(c)) \/ Aside(c) \/ LockLifecycle(c)
BY HolderMoves DEF Work, Locked, Aside

\* Which actions of a call may change what.
LEMMA WorkFrame ==
  ASSUME NEW c \in Calls, Work(c)
  PROVE  /\ UNCHANGED locks \/ LockWrite(c) \/ LockLifecycle(c) \/ Return(c) \/ Cleaned(c) \/ Left(c) \/ Admit(c)
         /\ UNCHANGED life \/ Exit(c) \/ Left(c)
         /\ UNCHANGED core \/ StopExit(c) \/ StopIpc(c) \/ Decide(c) \/ StartFailed(c)
              \/ ServiceStarted(c) \/ SidecarReserve(c) \/ SidecarSpawn(c) \/ SidecarProbe(c)
              \/ SidecarReady(c) \/ Undo(c)
         /\ UNCHANGED side \/ StopCore(c) \/ StopExit(c) \/ SidecarExit(c) \/ SidecarReserve(c)
              \/ SidecarSpawn(c) \/ SidecarProbe(c) \/ SidecarReady(c)
         /\ UNCHANGED svc \/ SetUp(c) \/ StopIpc(c) \/ ServiceIpc(c)
         /\ UNCHANGED owner \/ StopCore(c) \/ StopIpc(c) \/ ServiceStart(c) \/ ServiceIpc(c)
              \/ ServiceStarted(c)
         /\ UNCHANGED procs \/ StopCore(c) \/ SidecarSpawn(c) \/ SidecarProbe(c)
         /\ UNCHANGED known \/ Admit(c) \/ SetUp(c) \/ StopIpc(c) \/ ServiceRefresh(c)
              \/ ServiceIpc(c) \/ RollBack(c)
         /\ UNCHANGED os \/ LockWrite(c) \/ Return(c) \/ Admit(c) \/ StopProxy(c) \/ StopIpc(c)
              \/ Decide(c) \/ StartFailed(c) \/ SidecarProbe(c) \/ ApplyWrite(c)
              \/ ApplyGuard(c) \/ ApplyUndo(c) \/ SetProxy(c) \/ RollBack(c) \/ Undo(c)
<1>1. UNCHANGED locks \/ LockWrite(c) \/ LockLifecycle(c) \/ Return(c) \/ Cleaned(c) \/ Left(c)
        \/ Admit(c)
  BY DEF Work, locks, side, procs, owner, core, svc, known, life, Validate, Reload, Exit, Restage,
     SetUp, Plan, StopProxy, StopCore, StopExit, StopIpc, Start, Decide, StartFailed,
     ServiceRefresh, ServiceStart, ServiceIpc, ServiceStarted, SidecarExit, SidecarReserve,
     SidecarSpawn, SidecarProbe, SidecarReady, Started, Capture, ApplyWrite, ApplyCheck,
     ApplyGuard, ApplyRecheck, ApplyUndo, SetProxy, RollBack, Undo
<1>2. UNCHANGED life \/ Exit(c) \/ Left(c)
  BY DEF Work, locks, side, procs, owner, core, svc, known, life, LockWrite, Validate, Reload,
     LockLifecycle, Return, Cleaned, Admit, Restage, SetUp, Plan, StopProxy, StopCore, StopExit,
     StopIpc, Start, Decide, StartFailed, ServiceRefresh, ServiceStart, ServiceIpc, ServiceStarted,
     SidecarExit, SidecarReserve, SidecarSpawn, SidecarProbe, SidecarReady, Started, Capture,
     ApplyWrite, ApplyCheck, ApplyGuard, ApplyRecheck, ApplyUndo, SetProxy, RollBack, Undo
<1>3. UNCHANGED core \/ StopExit(c) \/ StopIpc(c) \/ Decide(c) \/ StartFailed(c)
        \/ ServiceStarted(c) \/ SidecarReserve(c) \/ SidecarSpawn(c) \/ SidecarProbe(c)
        \/ SidecarReady(c) \/ Undo(c)
  BY DEF Work, locks, side, procs, owner, core, svc, known, life, LockWrite, Validate, Reload,
     LockLifecycle, Return, Cleaned, Exit, Left, Admit, Restage, SetUp, Plan, StopProxy, StopCore,
     Start, ServiceRefresh, ServiceStart, ServiceIpc, SidecarExit, Started, Capture, ApplyWrite,
     ApplyCheck, ApplyGuard, ApplyRecheck, ApplyUndo, SetProxy, RollBack
<1>4. UNCHANGED side \/ StopCore(c) \/ StopExit(c) \/ SidecarExit(c) \/ SidecarReserve(c)
        \/ SidecarSpawn(c) \/ SidecarProbe(c) \/ SidecarReady(c)
  BY DEF Work, locks, side, procs, owner, core, svc, known, life, LockWrite, Validate, Reload,
     LockLifecycle, Return, Cleaned, Exit, Left, Admit, Restage, SetUp, Plan, StopProxy, StopIpc,
     Start, Decide, StartFailed, ServiceRefresh, ServiceStart, ServiceIpc, ServiceStarted, Started,
     Capture, ApplyWrite, ApplyCheck, ApplyGuard, ApplyRecheck, ApplyUndo, SetProxy, RollBack, Undo
<1>5. UNCHANGED svc \/ SetUp(c) \/ StopIpc(c) \/ ServiceIpc(c)
  BY DEF Work, locks, side, procs, owner, core, svc, known, life, LockWrite, Validate, Reload,
     LockLifecycle, Return, Cleaned, Exit, Left, Admit, Restage, Plan, StopProxy, StopCore,
     StopExit, Start, Decide, StartFailed, ServiceRefresh, ServiceStart, ServiceStarted,
     SidecarExit, SidecarReserve, SidecarSpawn, SidecarProbe, SidecarReady, Started, Capture,
     ApplyWrite, ApplyCheck, ApplyGuard, ApplyRecheck, ApplyUndo, SetProxy, RollBack, Undo
<1>6. UNCHANGED owner \/ StopCore(c) \/ StopIpc(c) \/ ServiceStart(c) \/ ServiceIpc(c)
        \/ ServiceStarted(c)
  BY DEF Work, locks, side, procs, owner, core, svc, known, life, LockWrite, Validate, Reload,
     LockLifecycle, Return, Cleaned, Exit, Left, Admit, Restage, SetUp, Plan, StopProxy, StopExit,
     Start, Decide, StartFailed, ServiceRefresh, SidecarExit, SidecarReserve, SidecarSpawn,
     SidecarProbe, SidecarReady, Started, Capture, ApplyWrite, ApplyCheck, ApplyGuard,
     ApplyRecheck, ApplyUndo, SetProxy, RollBack, Undo
<1>7. UNCHANGED procs \/ StopCore(c) \/ SidecarSpawn(c) \/ SidecarProbe(c)
  BY DEF Work, locks, side, procs, owner, core, svc, known, life, LockWrite, Validate, Reload,
     LockLifecycle, Return, Cleaned, Exit, Left, Admit, Restage, SetUp, Plan, StopProxy, StopExit,
     StopIpc, Start, Decide, StartFailed, ServiceRefresh, ServiceStart, ServiceIpc, ServiceStarted,
     SidecarExit, SidecarReserve, SidecarReady, Started, Capture, ApplyWrite, ApplyCheck,
     ApplyGuard, ApplyRecheck, ApplyUndo, SetProxy, RollBack, Undo
<1>8. UNCHANGED known \/ Admit(c) \/ SetUp(c) \/ StopIpc(c) \/ ServiceRefresh(c)
        \/ ServiceIpc(c) \/ RollBack(c)
  BY DEF Work, locks, side, procs, owner, core, svc, known, life, LockWrite, Validate, Reload,
     LockLifecycle, Return, Cleaned, Exit, Left, Restage, Plan, StopProxy, StopCore, StopExit,
     Start, Decide, StartFailed, ServiceStart, ServiceStarted, SidecarExit, SidecarReserve,
     SidecarSpawn, SidecarProbe, SidecarReady, Started, Capture, ApplyWrite, ApplyCheck,
     ApplyGuard, ApplyRecheck, ApplyUndo, SetProxy, Undo
<1>9. UNCHANGED os \/ LockWrite(c) \/ Return(c) \/ Admit(c) \/ StopProxy(c) \/ StopIpc(c)
        \/ Decide(c) \/ StartFailed(c) \/ SidecarProbe(c) \/ ApplyWrite(c) \/ ApplyGuard(c)
        \/ ApplyUndo(c) \/ SetProxy(c) \/ RollBack(c) \/ Undo(c)
  BY DEF Work, locks, side, procs, owner, core, svc, known, life, os, Validate, Reload,
     LockLifecycle, Cleaned, Exit, Left, Restage, SetUp, Plan, StopCore, StopExit, Start,
     ServiceRefresh, ServiceStart, ServiceIpc, ServiceStarted, SidecarExit, SidecarReserve,
     SidecarSpawn, SidecarReady, Started, Capture, ApplyCheck, ApplyRecheck
<1> QED BY <1>1, <1>2, <1>3, <1>4, <1>5, <1>6, <1>7, <1>8, <1>9

Outside ==
  \/ \E p \in Pids : ChildEnds(p) \/ Drain(p)
  \/ \E m \in monitors : Monitor(m)
  \/ Observe \/ ServiceCoreEnds \/ ServiceCoreReturns \/ Displaced

\* Children, monitors, the helper and the machine move no call and no lock.
LEMMA OutsideKeeps ==
  ASSUME Outside PROVE UNCHANGED <<locks, op, life, spawned, granted>>
<1>1. ASSUME NEW p \in Pids, ChildEnds(p) \/ Drain(p)
      PROVE UNCHANGED <<locks, op, life, spawned, granted>>
  BY <1>1 DEF ChildEnds, Drain, DrainTells, DrainInvalidates, DrainClears, svc
<1>2. ASSUME NEW m \in monitors, Monitor(m)
      PROVE UNCHANGED <<locks, op, life, spawned, granted>>
  BY <1>2
  DEF Monitor, MonitorEnds, MonitorClaims, MonitorInvalidates, MonitorRecovers, side, procs, svc
<1>3. ASSUME Observe \/ ServiceCoreEnds \/ ServiceCoreReturns \/ Displaced
      PROVE UNCHANGED <<locks, op, life, spawned, granted>>
  BY <1>3 DEF Observe, ServiceCoreEnds, ServiceCoreReturns, Displaced, side, procs, svc
<1> QED BY <1>1, <1>2, <1>3 DEF Outside

\* A step is one of a call, or one from outside.
LEMMA NextCases ==
  ASSUME Next PROVE (\E c \in Calls : Work(c) \/ Aside(c)) \/ Outside
BY DEF Next, Aside, Outside

-----------------------------------------------------------------------------
(* The calls, and what they have spent.                                    *)

\* Every step leaves every call where its kind may be.
LEMMA CallsStep ==
  ASSUME TypeOK, CallsFit, [Next]_vars PROVE CallsFit'
<1>0. None \notin Calls
  BY LifecycleAssumption
<1>1. ASSUME NEW c \in Calls, HolderStep(c) PROVE CallsFit'
  <2>1. PICK k, s : /\ Moved(c, k, s) /\ s \in Route(k) /\ s \in Held \cup Ends
    BY <1>1 DEF HolderStep
  <2> QED BY <1>0, <1>1, <2>1 DEF HolderStep, CallsFit, Moved, life
<1>2. ASSUME NEW c \in Calls, Aside(c) PROVE CallsFit'
  <2>0. AsideStep(c)
    BY <1>2, AsideMoves
  <2>1. PICK k, s : Moved(c, k, s) /\ s \in Route(k) /\ s \notin Held /\ (s \in Ends => k = "update")
    BY <2>0 DEF AsideStep
  <2> QED BY <1>0, <2>0, <2>1 DEF AsideStep, CallsFit, Moved
<1>3. ASSUME NEW c \in Calls, LockLifecycle(c) PROVE CallsFit'
  <2>1. FirstStage(op[c].kind) \in Held
    BY <1>3, LockMoves DEF Held, StartPath, StopPath
  <2> QED BY <1>0, <1>3, <2>1, LockMoves DEF CallsFit, Moved
<1>4. CASE UNCHANGED <<locks, op, life>>
  BY <1>4 DEF CallsFit, locks, life
<1> QED
  BY <1>1, <1>2, <1>3, <1>4, WorkCases, NextCases, OutsideKeeps DEF vars

\* Every child is paid for: the budget covers those born and those to come.
LEMMA SpawnsStep ==
  ASSUME TypeOK, CallsFit, SpawnsPaid, [Next]_vars, begun' \in Nat, spawned' \in Nat
  PROVE SpawnsPaid'
<1>0. /\ spawned \in Nat /\ begun \in Nat
      /\ IsFiniteSet(Pending) /\ Cardinality(Pending) \in Nat
      /\ 2 * (spawned + Cardinality(Pending)) <= begun
  BY FS_CardinalityType, LifecycleAssumption DEF TypeOK, SpawnsPaid, MaxOps
<1>1. ASSUME Pending' \subseteq Pending, spawned' = spawned, begun' = begun PROVE SpawnsPaid'
  <2>1. IsFiniteSet(Pending') /\ Cardinality(Pending') \in Nat /\ Cardinality(Pending') <= Cardinality(Pending)
    BY <1>0, <1>1, FS_Subset, FS_CardinalityType
  <2> QED BY <1>0, <1>1, <2>1 DEF SpawnsPaid
<1>2. ASSUME NEW c \in Calls, HolderStep(c), spawned' = spawned PROVE SpawnsPaid'
  <2>1. Pending' \subseteq Pending
    BY <1>2 DEF HolderStep, Pending, Moved
  <2> QED BY <1>1, <1>2, <2>1 DEF HolderStep, life
<1>3. ASSUME NEW c \in Calls, SidecarSpawn(c), spawned' # spawned PROVE SpawnsPaid'
  <2>1. /\ op[c].at = "sideSpawn" /\ spawned' = spawned + 1 /\ begun' = begun
        /\ Moved(c, op[c].kind, "sideProbe")
    BY <1>3, Moves DEF SidecarSpawn, Holds, life, procs
  <2>2. c \in Pending
    BY <2>1, RouteBack DEF Pending, Belongs, SidecarPath, Before, Spawning
  <2>3. Pending' \subseteq Pending \ {c}
    BY <2>1 DEF Pending, Moved, Before, StopPath
  <2>4. IsFiniteSet(Pending \ {c}) /\ Cardinality(Pending \ {c}) = Cardinality(Pending) - 1
    BY <1>0, <2>2, FS_RemoveElement
  <2>5. /\ IsFiniteSet(Pending') /\ Cardinality(Pending') \in Nat
        /\ Cardinality(Pending') <= Cardinality(Pending) - 1
    BY <2>3, <2>4, FS_Subset, FS_CardinalityType
  <2> QED BY <1>0, <2>1, <2>5 DEF SpawnsPaid
<1>4. ASSUME NEW c \in Calls, Aside(c) PROVE SpawnsPaid'
  <2>0. AsideStep(c) /\ spawned' = spawned
    BY <1>4, AsideMoves DEF AsideStep, side, procs
  <2>1. PICK k, s : /\ Moved(c, k, s)
                    /\ \/ begun' = begun /\ (k \in Spawning /\ s \in Before => c \in Pending)
                       \/ begun' \in Nat /\ begun' >= begun + 2
    BY <2>0 DEF AsideStep
  <2>2. CASE begun' = begun /\ (k \in Spawning /\ s \in Before => c \in Pending)
    <3>1. Pending' \subseteq Pending
      BY <2>1, <2>2 DEF Pending, Moved
    <3> QED BY <1>1, <2>0, <2>2, <3>1
  <2>3. CASE begun' >= begun + 2
    <3>1. Pending' \subseteq Pending \cup {c}
      BY <2>1 DEF Pending, Moved
    <3>2. /\ IsFiniteSet(Pending \cup {c}) /\ Cardinality(Pending \cup {c}) \in Nat
          /\ Cardinality(Pending \cup {c}) <= Cardinality(Pending) + 1
      <4>1. /\ IsFiniteSet(Pending \cup {c})
            /\ Cardinality(Pending \cup {c}) = IF c \in Pending THEN Cardinality(Pending)
                                               ELSE Cardinality(Pending) + 1
        BY <1>0, FS_AddElement
      <4> QED BY <1>0, <4>1
    <3>3. /\ IsFiniteSet(Pending') /\ Cardinality(Pending') \in Nat
          /\ Cardinality(Pending') <= Cardinality(Pending \cup {c})
      BY <3>1, <3>2, FS_Subset, FS_CardinalityType
    <3> QED BY <1>0, <2>0, <2>3, <3>2, <3>3 DEF SpawnsPaid
  <2> QED BY <2>1, <2>2, <2>3
<1>5. ASSUME NEW c \in Calls, LockLifecycle(c) PROVE SpawnsPaid'
  <2>1. Moved(c, op[c].kind, FirstStage(op[c].kind)) /\ op[c].at = "lock" /\ UNCHANGED <<spawned, begun>>
    BY <1>5, LockMoves DEF side, procs, life
  <2>2. Pending' \subseteq Pending
    BY <2>1 DEF Pending, Moved, Before
  <2> QED BY <1>1, <2>1, <2>2
<1>6. CASE UNCHANGED <<op, spawned, begun>>
  BY <1>1, <1>6 DEF Pending
<1>7. ASSUME NEW c \in Calls, Work(c) PROVE spawned' = spawned \/ SidecarSpawn(c)
  BY <1>7, WorkFrame DEF procs, StopCore, SidecarProbe
<1> QED
  BY <1>2, <1>3, <1>4, <1>5, <1>6, <1>7, WorkCases, NextCases, OutsideKeeps
  DEF vars, life, side, procs

-----------------------------------------------------------------------------
(* Types.                                                                  *)

LockType == {flag, writer, lock} \subseteq Calls \cup {None}
CoreType == mode \in Modes /\ pac \in BOOLEAN /\ ready \in [gen : Nat, active : BOOLEAN]
SideType ==
  /\ spawned \in 0 .. 2 * MaxOps
  /\ child \in 0 .. spawned /\ exitTask \in 0 .. spawned /\ reservation \in 0 .. spawned + 1
  /\ proc \in [Pids -> {"unborn", "up", "dying", "dead"}]
  /\ drain \in [Pids -> {"unborn", "reading", "told", "waiting", "done"}]
  /\ drainGen \in [Pids -> Nat]
SessionType == granted \in Nat /\ served \in 0 .. granted /\ session \in 0 .. granted
MonitorType ==
  /\ monGen \in Nat
  /\ \A m \in monitors :
       /\ m.gen \in 1 .. monGen /\ m.sess \in 0 .. granted
       /\ m.at \in {"watching", "claimed", "waiting"} /\ m.why \in Whys \cup {"nothing"}
KnownType == health \in Healths /\ allowed \in BOOLEAN /\ svcCore \in BOOLEAN
OsType == enable \in BOOLEAN /\ proxy \in BOOLEAN /\ guard \in BOOLEAN
LifeType == exiting \in BOOLEAN /\ exited \in {"no", "clean", "dirty"} /\ begun \in 0 .. Budget

\* The type invariant, part by part.
LEMMA TypeParts ==
  TypeOK <=> /\ LockType /\ OpType /\ CoreType /\ SideType /\ SessionType /\ MonitorType
             /\ KnownType /\ OsType /\ LifeType
<1>1. TypeOK <=>
        /\ LockType /\ OpType /\ CoreType
        /\ /\ spawned \in 0 .. 2 * MaxOps
           /\ {child, exitTask} \subseteq 0 .. spawned /\ reservation \in 0 .. spawned + 1
           /\ proc \in [Pids -> {"unborn", "up", "dying", "dead"}]
           /\ drain \in [Pids -> {"unborn", "reading", "told", "waiting", "done"}]
           /\ drainGen \in [Pids -> Nat]
        /\ granted \in Nat /\ {served, session} \subseteq 0 .. granted
        /\ MonitorType
        /\ health \in Healths /\ exited \in {"no", "clean", "dirty"} /\ begun \in 0 .. Budget
        /\ {svcCore, allowed, enable, proxy, guard, exiting} \subseteq BOOLEAN
  BY Zenon DEF TypeOK, LockType, OpType, CallRecord, Expected, AnyKind, CoreType, MonitorType
<1>2. {child, exitTask} \subseteq 0 .. spawned <=> child \in 0 .. spawned /\ exitTask \in 0 .. spawned
  OBVIOUS
<1>3. {served, session} \subseteq 0 .. granted <=> served \in 0 .. granted /\ session \in 0 .. granted
  OBVIOUS
<1>4. {svcCore, allowed, enable, proxy, guard, exiting} \subseteq BOOLEAN <=>
        /\ svcCore \in BOOLEAN /\ allowed \in BOOLEAN /\ enable \in BOOLEAN
        /\ proxy \in BOOLEAN /\ guard \in BOOLEAN /\ exiting \in BOOLEAN
  BY Zenon
<1> QED
  BY <1>1, <1>2, <1>3, <1>4, Zenon DEF SideType, SessionType, KnownType, OsType, LifeType

-----------------------------------------------------------------------------
(* The children, the reservation and the monitors.                         *)

\* Children are born in order, and read until they are dead.
LEMMA ChildrenStep ==
  ASSUME TypeOK, ChildrenFit, [Next]_vars PROVE ChildrenFit'
<1>0. /\ spawned \in Nat
      /\ proc \in [Pids -> {"unborn", "up", "dying", "dead"}]
      /\ drain \in [Pids -> {"unborn", "reading", "told", "waiting", "done"}]
  BY LifecycleAssumption DEF TypeOK, MaxOps
<1>1. CASE UNCHANGED procs
  BY <1>1 DEF ChildrenFit, procs
<1>2. ASSUME NEW p \in Pids, Killed(p), UNCHANGED <<drain, spawned>> PROVE ChildrenFit'
  BY <1>0, <1>2 DEF Killed, ChildrenFit
<1>3. ASSUME NEW c \in Calls, Work(c) PROVE ChildrenFit'
  <2>1. CASE StopCore(c)
    <3>1. child # 0 => child \in Pids
      <4>1. MaxOps \in Nat BY LifecycleAssumption DEF MaxOps
      <4> QED BY <1>0, <4>1, TypeParts DEF SideType, Pids
    <3> QED BY <1>1, <1>2, <2>1, <3>1 DEF StopCore, procs
  <2>2. CASE SidecarSpawn(c)
    <3>1. CASE UNCHANGED procs BY <1>1, <3>1
    <3>2. CASE /\ spawned' = spawned + 1
               /\ proc' = [proc EXCEPT ![spawned + 1] = "up"]
               /\ drain' = [drain EXCEPT ![spawned + 1] = "reading"]
      BY <1>0, <3>2 DEF ChildrenFit, Pids
    <3> QED BY <2>2, <3>1, <3>2 DEF SidecarSpawn
  <2>3. CASE SidecarProbe(c)
    <3>1. Killed(spawned) /\ spawned \in Pids => ChildrenFit'
      BY <1>2, <2>3 DEF SidecarProbe
    <3>2. spawned \notin Pids => proc' = proc \/ ~Killed(spawned)
      BY <1>0 DEF Killed
    <3> QED BY <1>1, <2>3, <3>1, <3>2 DEF SidecarProbe, procs
  <2> QED BY <1>1, <1>3, <2>1, <2>2, <2>3, WorkFrame
<1>4. ASSUME NEW p \in Pids, ChildEnds(p) PROVE ChildrenFit'
  BY <1>0, <1>4 DEF ChildEnds, ChildrenFit
<1>5. ASSUME NEW p \in Pids, Drain(p) PROVE ChildrenFit'
  BY <1>0, <1>5 DEF Drain, DrainTells, DrainInvalidates, DrainClears, ChildrenFit
<1>6. ASSUME NEW m \in monitors, Monitor(m) PROVE UNCHANGED procs
  BY <1>6 DEF Monitor, MonitorEnds, MonitorClaims, MonitorInvalidates, MonitorRecovers, side
<1>7. ASSUME NEW c \in Calls, Aside(c) PROVE UNCHANGED procs
  BY <1>7 DEF Aside, Begin, LockWrite, Validate, Reload, Return, Cleaned, Exit, Left, side
<1>8. CASE Observe \/ ServiceCoreEnds \/ ServiceCoreReturns \/ Displaced
  BY <1>1, <1>8 DEF Observe, ServiceCoreEnds, ServiceCoreReturns, Displaced, side
<1>9. CASE UNCHANGED vars
  BY <1>1, <1>9 DEF vars, side
<1> QED BY <1>1, <1>3, <1>4, <1>5, <1>6, <1>7, <1>8, <1>9, NextCases DEF Outside

\* The reservation follows the child from its claim to its end.
LEMMA ReservationStep ==
  ASSUME TypeOK, CallsFit, ChildrenFit, ReservationFits, [Next]_vars PROVE ReservationFits'
<1>0. /\ spawned \in Nat /\ None \notin Calls
      /\ proc \in [Pids -> {"unborn", "up", "dying", "dead"}]
  BY LifecycleAssumption DEF TypeOK, MaxOps
\* Where the reservation stands for no child that lives, none does.
<1>1. ASSUME reservation = spawned + 1 \/ reservation = 0, NEW p \in Pids PROVE ~Alive(p)
  BY <1>0, <1>1 DEF ReservationFits, ChildrenFit, Alive, Pids
<1>2. ASSUME UNCHANGED <<spawned, reservation>>, \A p \in Pids : Alive(p)' => Alive(p),
             svcCore' = svcCore \/ svcCore' = FALSE, Stage' = "sideSpawn" => Stage = "sideSpawn"
      PROVE  ReservationFits'
  BY <1>2 DEF ReservationFits
<1>3. ASSUME NEW p \in Pids, Killed(p), NEW q \in Pids, Alive(q)' PROVE Alive(q)
  BY <1>0, <1>3 DEF Killed, Alive
<1>4. ASSUME NEW c \in Calls, HolderStep(c), ~SidecarReserve(c) PROVE Stage' # "sideSpawn"
  BY <1>0, <1>4 DEF HolderStep, Stage, Moved
<1>5. ASSUME NEW c \in Calls, HolderStep(c), Work(c) PROVE ReservationFits'
  <2>1. CASE StopCore(c)
    <3>1. UNCHANGED <<spawned, reservation, svcCore>> /\ ~SidecarReserve(c)
      BY <2>1 DEF StopCore, SidecarReserve, Holds, svc
    <3>2. \A p \in Pids : Alive(p)' => Alive(p)
      <4>1. UNCHANGED proc \/ (child # 0 /\ Killed(child))
        BY <2>1 DEF StopCore
      <4>2. child # 0 => child \in Pids
        <5>1. MaxOps \in Nat BY LifecycleAssumption DEF MaxOps
        <5> QED BY <1>0, <5>1, TypeParts DEF SideType, Pids
      <4> QED BY <1>3, <4>1, <4>2 DEF Alive
    <3> QED BY <1>2, <1>4, <1>5, <3>1, <3>2
  <2>2. CASE SidecarProbe(c)
    <3>1. UNCHANGED <<spawned, reservation, svcCore>> /\ ~SidecarReserve(c)
      BY <2>2 DEF SidecarProbe, SidecarReserve, Holds, svc
    <3>2. \A p \in Pids : Alive(p)' => Alive(p)
      <4>1. UNCHANGED proc \/ Killed(spawned)
        BY <2>2 DEF SidecarProbe
      <4>2. spawned \notin Pids /\ Killed(spawned) => UNCHANGED proc
        BY <1>0 DEF Killed
      <4> QED BY <1>3, <4>1, <4>2 DEF Alive
    <3> QED BY <1>2, <1>4, <1>5, <3>1, <3>2
  <2>3. CASE SidecarReserve(c)
    <3>1. /\ UNCHANGED <<spawned, proc, svcCore>> /\ Stage = "sideReserve" /\ lock = c /\ lock' = c
          /\ \/ reservation = 0 /\ ~svcCore /\ reservation' = spawned + 1
             \/ reservation' = reservation /\ Moved(c, op[c].kind, "startFailed")
      BY <1>0, <1>5, <2>3, Moves DEF SidecarReserve, Holds, HolderStep, Stage, procs, svc
    <3>2. CASE reservation = 0 /\ ~svcCore /\ reservation' = spawned + 1
      BY <1>1, <3>1, <3>2 DEF ReservationFits, Alive
    <3>3. CASE reservation' = reservation /\ Moved(c, op[c].kind, "startFailed")
      <4>1. Stage' = "startFailed"
        BY <1>0, <3>1, <3>3 DEF Stage, Moved
      <4> QED BY <1>2, <3>1, <3>3, <4>1 DEF Alive
    <3> QED BY <3>1, <3>2, <3>3
  <2>4. CASE SidecarSpawn(c)
    <3>1. Stage = "sideSpawn" /\ Stage' # "sideSpawn" /\ reservation = spawned + 1 /\ svcCore' = svcCore
      <4>1. lock = c /\ op[c].at = "sideSpawn" /\ ~SidecarReserve(c) /\ svcCore' = svcCore
        BY <2>4 DEF SidecarSpawn, SidecarReserve, Holds, svc
      <4> QED BY <1>0, <1>4, <1>5, <4>1 DEF Stage, ReservationFits
    <3>2. CASE reservation' = reservation /\ proc' = [proc EXCEPT ![spawned + 1] = "up"]
      BY <1>0, <3>1, <3>2 DEF ReservationFits, Alive
    <3>3. CASE reservation' = 0 /\ UNCHANGED proc
      BY <1>1, <3>1, <3>3 DEF ReservationFits, Alive
    <3> QED BY <2>4, <3>2, <3>3 DEF SidecarSpawn, procs
  <2>5. CASE ServiceIpc(c)
    <3>1. UNCHANGED <<spawned, proc, reservation>> /\ (svcCore' = svcCore \/ reservation = 0)
      BY <2>5 DEF ServiceIpc, Grant, side, procs, svc
    <3>2. ~SidecarReserve(c)
      BY <2>5 DEF ServiceIpc, SidecarReserve, Holds
    <3> QED BY <1>4, <1>5, <3>1, <3>2 DEF ReservationFits, Alive
  <2>6. CASE SetUp(c) \/ StopIpc(c)
    <3>1. UNCHANGED side /\ (svcCore' = svcCore \/ svcCore' = FALSE)
      BY <2>6, StopIpcMoves DEF SetUp
    <3>2. ~SidecarReserve(c)
      BY <2>6, StopIpcMoves DEF SetUp, SidecarReserve, Holds
    <3> QED BY <1>2, <1>4, <1>5, <3>1, <3>2 DEF side, procs, Alive
  <2>7. CASE StopExit(c) \/ SidecarExit(c) \/ SidecarReady(c)
    <3>1. UNCHANGED <<spawned, proc, reservation, svcCore>>
      BY <2>7 DEF StopExit, SidecarExit, SidecarReady, procs, svc
    <3>2. ~SidecarReserve(c)
      BY <2>7 DEF StopExit, SidecarExit, SidecarReady, SidecarReserve, Holds
    <3> QED BY <1>2, <1>4, <1>5, <3>1, <3>2 DEF Alive
  <2>8. CASE UNCHANGED <<side, svc>> /\ ~SidecarReserve(c)
    BY <1>2, <1>4, <1>5, <2>8 DEF Alive, side, procs, svc
  <2> QED BY <1>5, <2>1, <2>2, <2>3, <2>4, <2>5, <2>6, <2>7, <2>8, WorkFrame
<1>6. ASSUME NEW c \in Calls, Aside(c) PROVE ReservationFits'
  <2>1. AsideStep(c)
    BY <1>6, AsideMoves
  <2>2. Stage' = "sideSpawn" => Stage = "sideSpawn"
    BY <1>0, <2>1 DEF AsideStep, Stage, Moved, TypeOK
  <2> QED BY <1>2, <2>1, <2>2 DEF AsideStep, Alive, side, procs, svc
<1>7. ASSUME NEW c \in Calls, LockLifecycle(c) PROVE ReservationFits'
  <2>1. UNCHANGED <<spawned, proc, reservation, svcCore>> /\ Stage' # "sideSpawn"
    BY <1>0, <1>7, LockMoves DEF Stage, Moved, side, procs, svc
  <2> QED BY <1>2, <2>1 DEF Alive
<1>8. ASSUME NEW p \in Pids, ChildEnds(p) \/ Drain(p) PROVE ReservationFits'
  <2>1. UNCHANGED <<spawned, svcCore>> /\ Stage' = Stage
    BY <1>8 DEF ChildEnds, Drain, DrainTells, DrainInvalidates, DrainClears, svc, locks, Stage
  <2>2. CASE DrainTells(p)
    <3>1. \A q \in Pids : Alive(q)' => Alive(q) /\ q # p
      BY <2>2 DEF DrainTells, Alive
    <3>2. reservation # spawned + 1 \/ reservation # p
      BY <1>0, <2>2 DEF DrainTells, ChildrenFit, Pids
    <3> QED BY <2>1, <2>2, <3>1, <3>2 DEF DrainTells, ReservationFits
  <2>3. CASE ChildEnds(p)
    BY <1>0, <1>2, <2>1, <2>3 DEF ChildEnds, Alive
  <2>4. CASE DrainInvalidates(p) \/ DrainClears(p)
    BY <1>2, <2>1, <2>4 DEF DrainInvalidates, DrainClears, Alive
  <2> QED BY <1>8, <2>2, <2>3, <2>4 DEF Drain
<1>9. ASSUME NEW m \in monitors, Monitor(m) PROVE ReservationFits'
  <2>1. UNCHANGED <<side, svcCore>> /\ Stage' = Stage
    BY <1>9
    DEF Monitor, MonitorEnds, MonitorClaims, MonitorInvalidates, MonitorRecovers, svc, locks, Stage
  <2> QED BY <1>2, <2>1 DEF side, procs, Alive
<1>10. CASE Observe \/ ServiceCoreEnds \/ ServiceCoreReturns \/ Displaced
  <2>1. UNCHANGED side /\ Stage' = Stage
    BY <1>10 DEF Observe, ServiceCoreEnds, ServiceCoreReturns, Displaced, locks, Stage
  <2>2. svcCore' = svcCore \/ svcCore' = FALSE \/ reservation = 0
    BY <1>10 DEF Observe, ServiceCoreEnds, ServiceCoreReturns, Displaced, svc
  <2> QED BY <2>1, <2>2 DEF side, procs, Alive, ReservationFits
<1>11. CASE UNCHANGED vars
  BY <1>2, <1>11 DEF vars, side, procs, svc, locks, Stage, Alive
<1> QED
  BY <1>5, <1>6, <1>7, <1>8, <1>9, <1>10, <1>11, NextCases, WorkCases DEF Outside

\* A monitor that starts watches the session, and no other is of its generation
\* or of a claim that the new generation would confirm.
LEMMA MonitorStarts ==
  ASSUME TypeOK, MonitorsFit, StartMonitor
  PROVE  /\ session' \in Nat => MonitorsFit'
         /\ \A m \in monitors' :
              m.gen = monGen' \/ (m.at # "watching" /\ m.gen + 1 = monGen') => m.sess = session'
         /\ \E m \in monitors' : Witness(m)'
<1>1. /\ monGen \in Nat
      /\ \A m \in monitors :
           m.gen <= monGen /\ m.gen \in Nat /\ (m.at # "watching" => m.gen < monGen)
  BY DEF MonitorsFit, TypeOK
<1>2. PICK n : n = [gen |-> monGen + 1, sess |-> session', at |-> "watching", why |-> "nothing"]
  OBVIOUS
<1>3. /\ monGen' = monGen + 1 /\ monitors' = monitors \cup {n}
      /\ n.gen = monGen + 1 /\ n.sess = session' /\ n.at = "watching"
  BY <1>2 DEF StartMonitor
<1>4. ASSUME NEW m \in monitors', m.gen = monGen' \/ (m.at # "watching" /\ m.gen + 1 = monGen')
      PROVE  m.sess = session'
  BY <1>1, <1>3, <1>4
<1>5. Witness(n)' /\ n \in monitors'
  BY <1>3 DEF Witness
<1>6. ASSUME session' \in Nat PROVE MonitorsFit'
  <2>1. n \in [gen : Nat, sess : Nat, at : {"watching", "claimed", "waiting"}, why : Whys \cup {"nothing"}]
    BY <1>1, <1>2, <1>6
  <2> QED BY <1>1, <1>3, <2>1 DEF MonitorsFit
<1> QED BY <1>4, <1>5, <1>6

\* Monitors keep their generations apart, and claim at most once.
LEMMA MonitorsStep ==
  ASSUME TypeOK, MonitorsFit, [Next]_vars, session' \in Nat PROVE MonitorsFit'
<1>0. /\ monGen \in Nat
      /\ \A m \in monitors :
           m.gen <= monGen /\ m.gen \in Nat /\ (m.at # "watching" => m.gen < monGen)
  BY DEF MonitorsFit, TypeOK
<1>1. CASE UNCHANGED <<monGen, monitors>>
  BY <1>1 DEF MonitorsFit
<1>2. ASSUME NEW c \in Calls, Work(c) PROVE MonitorsFit'
  <2>1. CASE StopCore(c)
    BY <1>0, <2>1 DEF StopCore, MonitorsFit
  <2>2. CASE StopIpc(c)
    BY <1>1, <2>2, StopIpcMoves, MonitorStarts
  <2>3. CASE ServiceStart(c)
    BY <1>1, <2>3 DEF ServiceStart
  <2>4. CASE ServiceIpc(c)
    <3>1. UNCHANGED owner \/ StartMonitor
      BY <2>4 DEF ServiceIpc
    <3> QED BY <1>1, <3>1, MonitorStarts DEF owner
  <2>5. CASE ServiceStarted(c)
    BY <2>5, MonitorStarts DEF ServiceStarted
  <2> QED BY <1>1, <1>2, <2>1, <2>2, <2>3, <2>4, <2>5, WorkFrame DEF owner
<1>3. ASSUME NEW m \in monitors, Monitor(m) PROVE MonitorsFit'
  <2>1. CASE MonitorEnds(m) \/ MonitorRecovers(m)
    BY <2>1 DEF MonitorEnds, MonitorRecovers, MonitorsFit
  <2>2. ASSUME NEW n, n \in [gen : Nat, sess : Nat, at : {"watching", "claimed", "waiting"},
                             why : Whys \cup {"nothing"}],
               n.gen = m.gen, Swap(m, n), monGen' \in Nat, monGen' >= monGen, m.gen < monGen'
        PROVE  MonitorsFit'
    BY <1>0, <2>2 DEF Swap, MonitorsFit
  <2>3. CASE MonitorInvalidates(m)
    <3>1. PICK n : n = [m EXCEPT !.at = "waiting"] OBVIOUS
    <3>2. /\ n \in [gen : Nat, sess : Nat, at : {"watching", "claimed", "waiting"}, why : Whys \cup {"nothing"}]
          /\ n.gen = m.gen
      BY <3>1 DEF MonitorsFit
    <3>3. Swap(m, n) /\ monGen' = monGen /\ m.gen < monGen
      BY <1>0, <2>3, <3>1 DEF MonitorInvalidates
    <3> QED BY <1>0, <2>2, <3>2, <3>3
  <2>4. ASSUME NEW why \in Whys, MonitorClaims(m, why) PROVE MonitorsFit'
    <3>1. PICK n : n = [m EXCEPT !.at = "claimed", !.why = why] OBVIOUS
    <3>2. /\ n \in [gen : Nat, sess : Nat, at : {"watching", "claimed", "waiting"}, why : Whys \cup {"nothing"}]
          /\ n.gen = m.gen
      BY <3>1 DEF MonitorsFit
    <3>3. Swap(m, n) /\ monGen' = m.gen + 1 /\ m.gen = monGen
      BY <2>4, <3>1 DEF MonitorClaims
    <3> QED BY <1>0, <2>2, <3>2, <3>3
  <2> QED BY <1>3, <2>1, <2>3, <2>4 DEF Monitor
<1>4. ASSUME NEW c \in Calls, Aside(c) PROVE UNCHANGED owner
  BY <1>4 DEF Aside, Begin, LockWrite, Validate, Reload, Return, Cleaned, Exit, Left
<1>5. ASSUME NEW p \in Pids, ChildEnds(p) \/ Drain(p) PROVE UNCHANGED owner
  BY <1>5 DEF ChildEnds, Drain, DrainTells, DrainInvalidates, DrainClears
<1>6. CASE Observe \/ ServiceCoreEnds \/ ServiceCoreReturns \/ Displaced
  BY <1>1, <1>6 DEF Observe, ServiceCoreEnds, ServiceCoreReturns, Displaced, owner
<1>7. CASE UNCHANGED vars
  BY <1>1, <1>7 DEF vars, owner
<1> QED BY <1>1, <1>2, <1>3, <1>4, <1>5, <1>6, <1>7, NextCases DEF Outside, owner

\* The types of the calls.
LEMMA OpTypeStep ==
  ASSUME TypeOK, CallsFit, [Next]_vars PROVE OpType'
<1>0. OpType /\ CoreType /\ MonitorType
  BY TypeParts
<1>1. ASSUME NEW c \in Calls, Work(c) PROVE OpType'
  <2>0. /\ op[c].kind \in AnyKind
        /\ {AfterStop(op[c].kind), GivesUp(op[c].kind), FirstStage(op[c].kind)} \subseteq Stages
        /\ {"undo", "replace", "restart", "leave"} \subseteq AnyKind
        /\ Idle \in CallRecord
    BY RouteBack
    DEF AfterStop, GivesUp, FirstStage, Stages, AnyKind, Callable, Flagged, Idle, CallRecord,
        Nothing, Expected, Modes
  <2>a. /\ \A s \in Stages : Goto(c, s) => OpType'
        /\ \A k \in AnyKind, s \in Stages : Become(c, k, s) => OpType'
        /\ op' = [op EXCEPT ![c] = Idle] => OpType'
    BY <1>0, <2>0, MovesTyped
  <2>b. /\ Goto(c, AfterStop(op[c].kind)) => OpType'
        /\ Goto(c, GivesUp(op[c].kind)) => OpType'
        /\ Goto(c, FirstStage(op[c].kind)) => OpType'
        /\ Become(c, "replace", "lock") \/ Become(c, "restart", "lock") => OpType'
        /\ Become(c, "leave", "lock") => OpType'
        /\ Become(c, "undo", "undo") \/ Become(c, "undo", "stopCore") => OpType'
    BY <2>0, <2>a DEF Stages
  <2>c. /\ Goto(c, "ok") \/ Goto(c, "failed") \/ Goto(c, "lock") \/ Goto(c, "reload") => OpType'
        /\ Goto(c, "stop") \/ Goto(c, "start") \/ Goto(c, "decide") \/ Goto(c, "rollback") => OpType'
        /\ Goto(c, "startFailed") \/ Goto(c, "started") \/ Goto(c, "svcRefresh") \/ Goto(c, "svcStart") => OpType'
        /\ Goto(c, "svcIpc") \/ Goto(c, "svcStarted") \/ Goto(c, "sideReserve") \/ Goto(c, "sideSpawn") => OpType'
        /\ Goto(c, "sideProbe") \/ Goto(c, "sideReady") \/ Goto(c, "sideExit") \/ Goto(c, "apply") => OpType'
        /\ Goto(c, "applyCheck") \/ Goto(c, "applyRecheck") \/ Goto(c, "applyUndo") \/ Goto(c, "stopCore") => OpType'
        /\ Goto(c, "stopExit") \/ Goto(c, "stopIpc") \/ Goto(c, "exit") \/ Goto(c, "stay") => OpType'
        /\ Goto(c, "applyGuard") => OpType'
    BY <2>a DEF Stages
  <2>1. CASE LockWrite(c)
    <3>1. Goto(c, "lock")
      BY <2>1, LockWriteMoves
    <3> QED BY <2>c, <3>1
  <2>2. CASE Validate(c)
    BY <2>b, <2>c, <2>2 DEF Validate
  <2>3. CASE Reload(c)
    BY <2>b, <2>c, <2>3 DEF Reload
  <2>4. CASE LockLifecycle(c)
    BY <2>b, <2>c, <2>4 DEF LockLifecycle
  <2>5. CASE Return(c)
    BY <2>a, <2>5, ReturnMoves
  <2>6. CASE Cleaned(c)
    BY <2>b, <2>c, <2>6 DEF Cleaned
  <2>7. CASE Exit(c)
    BY <2>a, <2>b, <2>7, Zenon DEF Exit
  <2>8. CASE Left(c)
    BY <2>a, <2>8, Zenon DEF Left
  <2>9. CASE Admit(c)
    BY <2>b, <2>c, <2>9 DEF Admit
  <2>10. CASE Restage(c)
    BY <2>b, <2>c, <2>10 DEF Restage
  <2>11. CASE SetUp(c)
    <3>1. \/ Goto(c, GivesUp(op[c].kind))
          \/ \E s \in {"start", "rollback", "ok"} : Goto(c, s)
      BY <2>11 DEF SetUp
    <3> QED BY <2>b, <2>c, <3>1
  <2>12. CASE Plan(c)
    <3>1. \E e \in BOOLEAN : op' = [op EXCEPT ![c].at = "stop", ![c].handOver = e]
      BY <2>12, Zenon DEF Plan
    <3>2. \A e \in BOOLEAN : op' = [op EXCEPT ![c].at = "stop", ![c].handOver = e] => OpType'
      <4>1. "stop" \in Stages
        BY DEF Stages
      <4> QED BY <1>0, <4>1, MovesTyped
    <3> QED BY <3>1, <3>2
  <2>13. CASE StopProxy(c)
    BY <2>b, <2>c, <2>13 DEF StopProxy
  <2>14. CASE StopCore(c)
    BY <2>b, <2>c, <2>14 DEF StopCore
  <2>15. CASE StopExit(c)
    BY <2>b, <2>c, <2>15 DEF StopExit
  <2>16. CASE StopIpc(c)
    <3>1. Goto(c, "failed") \/ Goto(c, AfterStop(op[c].kind))
      BY <2>16, Zenon DEF StopIpc
    <3> QED BY <2>b, <2>c, <3>1
  <2>17. CASE Start(c)
    BY <2>b, <2>c, <2>17 DEF Start
  <2>18. CASE Decide(c)
    BY <2>b, <2>c, <2>18 DEF Decide
  <2>19. CASE StartFailed(c)
    BY <2>b, <2>c, <2>19 DEF StartFailed
  <2>20. CASE ServiceRefresh(c)
    BY <2>b, <2>c, <2>20 DEF ServiceRefresh
  <2>21. CASE ServiceStart(c)
    BY <2>b, <2>c, <2>21 DEF ServiceStart
  <2>22. CASE ServiceIpc(c)
    BY <2>b, <2>c, <2>22 DEF ServiceIpc
  <2>23. CASE ServiceStarted(c)
    BY <2>b, <2>c, <2>23 DEF ServiceStarted
  <2>24. CASE SidecarExit(c)
    BY <2>b, <2>c, <2>24 DEF SidecarExit
  <2>25. CASE SidecarReserve(c)
    BY <2>b, <2>c, <2>25 DEF SidecarReserve
  <2>26. CASE SidecarSpawn(c)
    BY <2>b, <2>c, <2>26 DEF SidecarSpawn
  <2>27. CASE SidecarProbe(c)
    BY <2>b, <2>c, <2>27 DEF SidecarProbe
  <2>28. CASE SidecarReady(c)
    BY <2>b, <2>c, <2>28 DEF SidecarReady
  <2>29. CASE Started(c)
    BY <2>b, <2>c, <2>29 DEF Started
  <2>30. CASE Capture(c)
    <3>1. \/ Goto(c, GivesUp(op[c].kind)) \/ Goto(c, "ok")
          \/ op' = [op EXCEPT ![c].at = "applyWrite", ![c].seen = Expectation]
      BY <2>30, Zenon DEF Capture
    <3>2. Expectation \in Expected
      BY <1>0 DEF Expectation, Expected, CoreType, MonitorType
    <3>3. "applyWrite" \in Stages
      BY DEF Stages
    <3>4. op' = [op EXCEPT ![c].at = "applyWrite", ![c].seen = Expectation] => OpType'
      BY <1>0, <3>2, <3>3, MovesTyped
    <3> QED BY <2>b, <2>c, <3>1, <3>4
  <2>31. CASE ApplyWrite(c)
    BY <2>b, <2>c, <2>31 DEF ApplyWrite
  <2>32. CASE ApplyCheck(c)
    BY <2>b, <2>c, <2>32 DEF ApplyCheck
  <2>33. CASE ApplyGuard(c)
    BY <2>b, <2>c, <2>33 DEF ApplyGuard
  <2>34. CASE ApplyRecheck(c)
    BY <2>b, <2>c, <2>34 DEF ApplyRecheck
  <2>35. CASE ApplyUndo(c)
    BY <2>b, <2>c, <2>35 DEF ApplyUndo
  <2>36. CASE SetProxy(c)
    <3>1. Goto(c, "apply") \/ Goto(c, "ok") \/ Goto(c, "failed")
      BY <2>36, Zenon DEF SetProxy
    <3> QED BY <2>c, <3>1
  <2>37. CASE RollBack(c)
    <3>1. Become(c, "undo", "undo") \/ Become(c, "undo", "stopCore") \/ Goto(c, "failed")
      BY <2>37, Zenon DEF RollBack
    <3> QED BY <2>b, <2>c, <3>1
  <2>38. CASE Undo(c)
    BY <2>b, <2>c, <2>38 DEF Undo
  <2> QED
    BY <1>1, <2>1, <2>2, <2>3, <2>4, <2>5, <2>6, <2>7, <2>8, <2>9, <2>10, <2>11, <2>12, <2>13,
       <2>14, <2>15, <2>16, <2>17, <2>18, <2>19, <2>20, <2>21, <2>22, <2>23, <2>24, <2>25, <2>26,
       <2>27, <2>28, <2>29, <2>30, <2>31, <2>32, <2>33, <2>34, <2>35, <2>36, <2>37, <2>38 DEF Work
<1>2. ASSUME NEW c \in Calls, NEW k \in Kinds, Begin(c, k) PROVE OpType'
  <2>1. PICK s : /\ s = IF k \in ToSidecar \cup {"sysproxy"} THEN "write"
                        ELSE IF k = "update" THEN "validate" ELSE "lock"
                 /\ op' = [op EXCEPT ![c] = [Idle EXCEPT !.kind = k, !.at = s]]
    BY <1>2, BeginMoves
  <2>2. [Idle EXCEPT !.kind = k, !.at = s] \in CallRecord
    BY <2>1, LifecycleAssumption DEF Idle, CallRecord, AnyKind, Stages, Nothing, Expected, Modes
  <2> QED BY <1>0, <2>1, <2>2, MovesTyped
<1>3. CASE UNCHANGED op
  BY <1>0, <1>3 DEF OpType
<1> QED BY <1>1, <1>2, <1>3, OutsideKeeps DEF Next, Outside, vars

\* The types of the locks.
LEMMA LockTypeStep ==
  ASSUME TypeOK, CallsFit, [Next]_vars PROVE LockType'
<1>0. LockType /\ None \notin Calls
  BY TypeParts, LifecycleAssumption
<1>1. CASE UNCHANGED locks
  BY <1>0, <1>1 DEF LockType, locks
<1>2. ASSUME NEW c \in Calls, NEW k \in Kinds, Begin(c, k) PROVE LockType'
  <2>1. flag' \in {flag, c} /\ UNCHANGED <<writer, lock>>
    BY <1>2, Zenon DEF Begin
  <2> QED BY <1>0, <2>1 DEF LockType
<1>3. ASSUME NEW c \in Calls, Work(c) PROVE LockType'
  <2>1. CASE Return(c)
    <3>1. flag' \in {flag, None} /\ writer' \in {writer, None} /\ lock' \in {lock, None}
      <4>1. /\ flag' = IF flag = c THEN None ELSE flag
            /\ writer' = IF writer = c THEN None ELSE writer
            /\ lock' = IF lock = c THEN None ELSE lock
        BY <2>1, Zenon DEF Return
      <4> QED BY <4>1
    <3> QED BY <1>0, <3>1 DEF LockType
  <2>2. CASE Admit(c)
    <3>1. writer' \in {writer, None} /\ UNCHANGED <<flag, lock>>
      BY <2>2, Zenon DEF Admit
    <3> QED BY <1>0, <3>1 DEF LockType
  <2>3. CASE LockWrite(c)
    <3>1. writer' = c /\ UNCHANGED <<flag, lock>>
      BY <2>3, Zenon DEF LockWrite
    <3> QED BY <1>0, <3>1 DEF LockType
  <2>4. CASE LockLifecycle(c)
    BY <1>0, <2>4 DEF LockLifecycle, LockType
  <2>5. CASE Cleaned(c)
    BY <1>0, <2>5 DEF Cleaned, LockType
  <2>6. CASE Left(c)
    BY <1>0, <2>6 DEF Left, LockType
  <2>7. UNCHANGED locks \/ LockWrite(c) \/ LockLifecycle(c) \/ Return(c) \/ Cleaned(c) \/ Left(c) \/ Admit(c)
    BY <1>3, WorkFrame
  <2> QED BY <1>1, <2>1, <2>2, <2>3, <2>4, <2>5, <2>6, <2>7
<1> QED BY <1>1, <1>2, <1>3, OutsideKeeps DEF Next, Outside, vars

\* The types of what the application knows of its end.
LEMMA LifeTypeStep ==
  ASSUME TypeOK, CallsFit, [Next]_vars PROVE LifeType'
<1>0. LifeType /\ Budget \in Nat
  BY TypeParts, LifecycleAssumption
<1>1. CASE UNCHANGED life
  BY <1>0, <1>1 DEF LifeType, life
<1>2. ASSUME NEW c \in Calls, NEW k \in Kinds, Begin(c, k) PROVE LifeType'
  <2>1. /\ exiting' \in BOOLEAN /\ UNCHANGED exited
        /\ begun' = begun + Cost(k) /\ begun + Cost(k) <= Budget
    BY <1>2, Zenon DEF Begin
  <2> QED BY <1>0, <2>1 DEF LifeType, Cost
<1>3. ASSUME NEW c \in Calls, Work(c) PROVE LifeType'
  <2>1. CASE Exit(c)
    BY <1>0, <2>1 DEF Exit, LifeType
  <2>2. CASE Left(c)
    BY <1>0, <2>2 DEF Left, LifeType
  <2> QED BY <1>1, <1>3, <2>1, <2>2, WorkFrame
<1> QED BY <1>1, <1>2, <1>3, OutsideKeeps DEF Next, Outside, vars

\* The types of the state of the core.
LEMMA CoreTypeStep ==
  ASSUME TypeOK, CallsFit, [Next]_vars PROVE CoreType'
<1>0. CoreType /\ {"NotRunning", "Sidecar", "Service"} = Modes
  BY TypeParts DEF Modes
<1>1. CASE UNCHANGED core
  BY <1>0, <1>1 DEF CoreType, core
<1>2. NotReady(ready) \in [gen : Nat, active : BOOLEAN] /\ NowReady(ready) \in [gen : Nat, active : BOOLEAN]
  BY <1>0 DEF NotReady, NowReady, CoreType
<1>3. CASE CoreStopped
  BY <1>0, <1>2, <1>3 DEF CoreStopped, CoreType
<1>4. CASE ready' \in {ready, NotReady(ready), NowReady(ready)} /\ UNCHANGED <<mode, pac>>
  BY <1>0, <1>2, <1>4 DEF CoreType
<1>5. CASE /\ ready' \in {ready, NowReady(ready)}
           /\ CoreStarted("Sidecar") \/ CoreStarted("Service")
  BY <1>0, <1>2, <1>5 DEF CoreType, CoreStarted
<1>6. ASSUME NEW c \in Calls, Work(c) PROVE CoreType'
  <2>1. CASE StopExit(c) \/ StartFailed(c) \/ SidecarReserve(c) \/ SidecarProbe(c) \/ Undo(c)
    <3>1. CoreStopped \/ UNCHANGED core
      BY <2>1 DEF StopExit, StartFailed, SidecarReserve, SidecarProbe, Undo
    <3> QED BY <1>1, <1>3, <3>1
  <2>2. CASE StopIpc(c)
    BY <1>1, <1>3, <2>2, StopIpcMoves
  <2>3. CASE Decide(c)
    <3>1. CoreStopped \/ UNCHANGED core \/ (pac' = FALSE /\ UNCHANGED <<mode, ready>>)
      BY <2>3, Zenon DEF Decide
    <3> QED BY <1>0, <1>1, <1>3, <3>1 DEF CoreType
  <2>4. CASE ServiceStarted(c) \/ SidecarReady(c)
    BY <1>5, <2>4 DEF ServiceStarted, SidecarReady
  <2>5. CASE SidecarSpawn(c)
    BY <1>4, <2>5 DEF SidecarSpawn
  <2> QED BY <1>1, <1>6, <2>1, <2>2, <2>3, <2>4, <2>5, WorkFrame
<1>7. ASSUME NEW c \in Calls, NEW k \in Kinds, Begin(c, k) PROVE UNCHANGED core
  BY <1>7, BeginMoves
<1>8. ASSUME NEW p \in Pids, ChildEnds(p) \/ Drain(p) PROVE CoreType'
  <2>1. CoreStopped \/ UNCHANGED core \/ (ready' \in {ready, NotReady(ready)} /\ UNCHANGED <<mode, pac>>)
    BY <1>8 DEF ChildEnds, Drain, DrainTells, DrainInvalidates, DrainClears
  <2> QED BY <1>1, <1>3, <1>4, <2>1
<1>9. ASSUME NEW m \in monitors, Monitor(m) PROVE CoreType'
  <2>1. CoreStopped \/ UNCHANGED core \/ (ready' = NotReady(ready) /\ UNCHANGED <<mode, pac>>)
    BY <1>9, RecoverKeeps
    DEF Monitor, MonitorEnds, MonitorClaims, MonitorInvalidates, MonitorRecovers
  <2> QED BY <1>1, <1>3, <1>4, <2>1
<1>10. CASE Observe \/ ServiceCoreEnds \/ ServiceCoreReturns \/ Displaced
  BY <1>1, <1>10 DEF Observe, ServiceCoreEnds, ServiceCoreReturns, Displaced
<1> QED BY <1>1, <1>6, <1>7, <1>8, <1>9, <1>10 DEF Next, vars

\* The types of the children.
LEMMA SideTypeStep ==
  ASSUME TypeOK, CallsFit, SpawnsPaid, [Next]_vars PROVE SideType'
<1>0. SideType /\ CoreType /\ spawned \in Nat /\ MaxOps \in Nat
  <2>1. MaxOps \in Nat
    BY LifecycleAssumption DEF MaxOps
  <2> QED BY <2>1, TypeParts DEF SideType
<1>1. CASE UNCHANGED side
  BY <1>0, <1>1 DEF SideType, side, procs
<1>2. ASSUME NEW p, Killed(p) PROVE proc' \in [Pids -> {"unborn", "up", "dying", "dead"}]
  BY <1>0, <1>2 DEF Killed, SideType
<1>3. ASSUME NEW c \in Calls, Work(c) PROVE SideType'
  <2>1. CASE StopCore(c)
    <3>1. /\ child' \in {child, 0} /\ UNCHANGED <<exitTask, drain, drainGen, spawned, reservation>>
          /\ UNCHANGED proc \/ Killed(child)
      BY <2>1 DEF StopCore
    <3> QED BY <1>0, <1>2, <3>1 DEF SideType
  <2>2. CASE StopExit(c) \/ SidecarExit(c)
    BY <1>0, <2>2 DEF StopExit, SidecarExit, SideType, procs
  <2>3. CASE SidecarReserve(c)
    BY <1>0, <2>3 DEF SidecarReserve, SideType, procs
  <2>4. CASE SidecarSpawn(c)
    <3>1. CASE reservation' = 0 /\ UNCHANGED <<procs, exitTask, child>>
      BY <1>0, <3>1 DEF SideType, procs
    <3>2. CASE spawned' = spawned + 1 /\ exitTask' = spawned + 1
      <4>1. spawned + 1 <= 2 * MaxOps
        <5>1. c \in Pending
          BY <2>4, RouteBack
          DEF SidecarSpawn, Holds, Pending, Belongs, SidecarPath, Before, Spawning
        <5>2. Cardinality(Pending) - 1 \in Nat /\ Cardinality(Pending) \in Nat
          <6>1. IsFiniteSet(Pending) /\ Cardinality(Pending) \in Nat
            BY FS_CardinalityType DEF SpawnsPaid
          <6>2. IsFiniteSet(Pending \ {c}) /\ Cardinality(Pending \ {c}) = Cardinality(Pending) - 1
            BY <5>1, <6>1, FS_RemoveElement
          <6>3. Cardinality(Pending \ {c}) \in Nat
            BY <6>2, FS_CardinalityType
          <6> QED BY <6>1, <6>2, <6>3
        <5>3. 2 * (spawned + Cardinality(Pending)) <= Budget /\ Budget \in Nat
          <6>1. begun \in 0 .. Budget /\ Budget \in Nat
            BY LifecycleAssumption DEF TypeOK
          <6> QED BY <1>0, <5>2, <6>1 DEF SpawnsPaid
        <5>4. spawned + Cardinality(Pending) <= MaxOps
          BY <1>0, <5>2, <5>3 DEF MaxOps
        <5> QED BY <1>0, <5>2, <5>4
      <4>2. /\ proc' = [proc EXCEPT ![spawned + 1] = "up"]
            /\ drain' = [drain EXCEPT ![spawned + 1] = "reading"]
            /\ drainGen' = [drainGen EXCEPT ![spawned + 1] = ready.gen + 1]
            /\ UNCHANGED <<child, reservation>>
        BY <1>0, <2>4, <3>2 DEF SidecarSpawn, procs
      <4>3. ready.gen + 1 \in Nat
        BY <1>0 DEF CoreType
      <4>4. /\ proc' \in [Pids -> {"unborn", "up", "dying", "dead"}]
            /\ drain' \in [Pids -> {"unborn", "reading", "told", "waiting", "done"}]
            /\ drainGen' \in [Pids -> Nat]
        BY <1>0, <4>2, <4>3 DEF SideType
      <4>5. /\ spawned' \in 0 .. 2 * MaxOps /\ exitTask' \in 0 .. spawned'
            /\ child' \in 0 .. spawned' /\ reservation' \in 0 .. spawned' + 1
        BY <1>0, <3>2, <4>1, <4>2 DEF SideType
      <4> QED BY <4>4, <4>5, Zenon DEF SideType
    <3> QED BY <2>4, <3>1, <3>2 DEF SidecarSpawn
  <2>5. CASE SidecarProbe(c)
    <3>1. UNCHANGED <<child, exitTask, drain, drainGen, spawned, reservation>>
          /\ (UNCHANGED proc \/ Killed(spawned))
      BY <2>5 DEF SidecarProbe
    <3> QED BY <1>0, <1>2, <3>1 DEF SideType
  <2>6. CASE SidecarReady(c)
    BY <1>0, <2>6 DEF SidecarReady, SideType, procs
  <2> QED BY <1>1, <1>3, <2>1, <2>2, <2>3, <2>4, <2>5, <2>6, WorkFrame
<1>4. ASSUME NEW c \in Calls, NEW k \in Kinds, Begin(c, k) PROVE UNCHANGED side
  BY <1>4, BeginMoves
<1>5. ASSUME NEW p \in Pids, ChildEnds(p) \/ Drain(p) PROVE SideType'
  BY <1>0, <1>5 DEF ChildEnds, Drain, DrainTells, DrainInvalidates, DrainClears, SideType
<1>6. ASSUME NEW m \in monitors, Monitor(m) PROVE UNCHANGED side
  BY <1>6 DEF Monitor, MonitorEnds, MonitorClaims, MonitorInvalidates, MonitorRecovers
<1>7. CASE Observe \/ ServiceCoreEnds \/ ServiceCoreReturns \/ Displaced
  BY <1>1, <1>7 DEF Observe, ServiceCoreEnds, ServiceCoreReturns, Displaced
<1> QED BY <1>1, <1>3, <1>4, <1>5, <1>6, <1>7 DEF Next, vars

\* The types of the sessions of the helper.
LEMMA SessionTypeStep ==
  ASSUME TypeOK, [Next]_vars
  PROVE  SessionType' /\ granted' >= granted /\ granted \in Nat /\ granted' \in Nat
<1>0. SessionType /\ granted \in Nat
  BY TypeParts DEF SessionType
<1>1. CASE granted' = granted /\ served' \in {served, 0} /\ session' \in {session, 0}
  BY <1>0, <1>1 DEF SessionType
<1>2. CASE UNCHANGED <<svc, owner>>
  BY <1>1, <1>2 DEF svc, owner
<1>3. ASSUME NEW c \in Calls, Work(c)
      PROVE  SessionType' /\ granted' >= granted
  <2>1. CASE SetUp(c)
    <3>1. granted' = granted /\ served' \in {served, 0} /\ UNCHANGED owner
      BY <2>1 DEF SetUp
    <3> QED BY <1>0, <1>1, <3>1 DEF owner
  <2>2. CASE StopIpc(c)
    <3>1. granted' = granted /\ served' \in {served, 0} /\ session' \in {session, 0}
      <4>1. granted' = granted
        BY <2>2, StopIpcMoves DEF svc
      <4> QED BY <2>2, <4>1, StopIpcMoves
    <3> QED BY <1>0, <1>1, <3>1
  <2>3. CASE StopCore(c) \/ ServiceStart(c)
    BY <1>0, <1>1, <2>3 DEF StopCore, ServiceStart, svc
  <2>4. CASE ServiceIpc(c)
    <3>1. session' = session /\ (UNCHANGED svc \/ Grant)
      BY <2>4 DEF ServiceIpc, owner
    <3> QED BY <1>0, <3>1 DEF Grant, svc, SessionType
  <2>5. CASE ServiceStarted(c)
    BY <1>0, <2>5 DEF ServiceStarted, svc, SessionType
  <2> QED BY <1>0, <1>2, <1>3, <2>1, <2>2, <2>3, <2>4, <2>5, WorkFrame DEF svc
<1>4. ASSUME NEW c \in Calls, NEW k \in Kinds, Begin(c, k) PROVE UNCHANGED <<svc, owner>>
  BY <1>4, BeginMoves
<1>5. ASSUME NEW p \in Pids, ChildEnds(p) \/ Drain(p) PROVE UNCHANGED <<svc, owner>>
  BY <1>5 DEF ChildEnds, Drain, DrainTells, DrainInvalidates, DrainClears
<1>6. ASSUME NEW m \in monitors, Monitor(m) PROVE UNCHANGED svc /\ session' \in {session, 0}
  BY <1>6 DEF Monitor, MonitorEnds, MonitorClaims, MonitorInvalidates, MonitorRecovers, Recover
<1>7. CASE Observe \/ ServiceCoreEnds \/ ServiceCoreReturns \/ Displaced
  <2>1. granted' = granted /\ served' \in {served, 0} /\ UNCHANGED owner
    BY <1>7 DEF Observe, ServiceCoreEnds, ServiceCoreReturns, Displaced, svc
  <2> QED BY <1>0, <1>1, <2>1 DEF owner
<1>8. SessionType' /\ granted' >= granted
  BY <1>0, <1>1, <1>2, <1>3, <1>4, <1>5, <1>6, <1>7 DEF Next, vars, svc
<1> QED BY <1>0, <1>8 DEF SessionType

\* The types of the monitors.
LEMMA MonitorTypeStep ==
  ASSUME TypeOK, [Next]_vars PROVE MonitorType'
<1>0. MonitorType /\ SessionType' /\ granted' >= granted /\ granted \in Nat /\ granted' \in Nat
  BY SessionTypeStep, TypeParts
<1>1. CASE UNCHANGED <<monGen, monitors>>
  BY <1>0, <1>1 DEF MonitorType
<1>2. CASE StartMonitor
  <2>1. PICK n : n = [gen |-> monGen + 1, sess |-> session', at |-> "watching", why |-> "nothing"]
    OBVIOUS
  <2>2. monGen' = monGen + 1 /\ monitors' = monitors \cup {n}
    BY <1>2, <2>1 DEF StartMonitor
  <2>3. n.gen = monGen + 1 /\ n.sess \in 0 .. granted' /\ n.at = "watching" /\ n.why = "nothing"
    BY <1>0, <2>1 DEF SessionType
  <2> QED BY <1>0, <2>2, <2>3 DEF MonitorType
<1>3. ASSUME NEW c \in Calls, Work(c) PROVE MonitorType'
  <2>1. CASE StopCore(c)
    BY <1>0, <2>1 DEF StopCore, MonitorType
  <2>2. CASE StopIpc(c)
    BY <1>1, <1>2, <2>2, StopIpcMoves
  <2>3. CASE ServiceStart(c) \/ ServiceIpc(c) \/ ServiceStarted(c)
    <3>1. UNCHANGED <<monGen, monitors>> \/ StartMonitor
      BY <2>3 DEF ServiceStart, ServiceIpc, ServiceStarted, owner
    <3> QED BY <1>1, <1>2, <3>1
  <2> QED BY <1>1, <1>3, <2>1, <2>2, <2>3, WorkFrame DEF owner
<1>4. ASSUME NEW c \in Calls, NEW k \in Kinds, Begin(c, k) PROVE UNCHANGED owner
  BY <1>4, BeginMoves
<1>5. ASSUME NEW p \in Pids, ChildEnds(p) \/ Drain(p) PROVE UNCHANGED owner
  BY <1>5 DEF ChildEnds, Drain, DrainTells, DrainInvalidates, DrainClears
<1>6. ASSUME NEW m \in monitors, Monitor(m) PROVE MonitorType'
  <2>1. CASE MonitorEnds(m) \/ MonitorRecovers(m)
    BY <1>0, <2>1 DEF MonitorEnds, MonitorRecovers, MonitorType
  <2>2. CASE MonitorInvalidates(m)
    <3>1. PICK n : n = [m EXCEPT !.at = "waiting"] OBVIOUS
    <3>2. monitors' = (monitors \ {m}) \cup {n} /\ monGen' = monGen
      BY <2>2, <3>1 DEF MonitorInvalidates, Swap
    <3>3. n.gen = m.gen /\ n.sess = m.sess /\ n.at \in {"watching", "claimed", "waiting"} /\ n.why = m.why
      BY <3>1 DEF MonitorType
    <3> QED BY <1>0, <3>2, <3>3 DEF MonitorType
  <2>3. ASSUME NEW why \in Whys, MonitorClaims(m, why) PROVE MonitorType'
    <3>1. PICK n : n = [m EXCEPT !.at = "claimed", !.why = why] OBVIOUS
    <3>2. monitors' = (monitors \ {m}) \cup {n} /\ monGen' = monGen + 1
      BY <2>3, <3>1 DEF MonitorClaims, Swap
    <3>3. n.gen = m.gen /\ n.sess = m.sess /\ n.at \in {"watching", "claimed", "waiting"} /\ n.why = why
      BY <3>1 DEF MonitorType
    <3> QED BY <1>0, <3>2, <3>3 DEF MonitorType
  <2> QED BY <1>6, <2>1, <2>2, <2>3 DEF Monitor
<1>7. CASE Observe \/ ServiceCoreEnds \/ ServiceCoreReturns \/ Displaced
  BY <1>1, <1>7 DEF Observe, ServiceCoreEnds, ServiceCoreReturns, Displaced, owner
<1> QED BY <1>1, <1>3, <1>4, <1>5, <1>6, <1>7 DEF Next, vars, owner

\* The types of what is known of the helper.
LEMMA KnownTypeStep ==
  ASSUME TypeOK, [Next]_vars PROVE KnownType'
<1>0. KnownType
  BY TypeParts
<1>1. CASE UNCHANGED <<known, svc>>
  BY <1>0, <1>1 DEF KnownType, known, svc
<1>2. ASSUME NEW c \in Calls, Work(c) PROVE KnownType'
  <2>1. health' \in Healths /\ allowed' \in BOOLEAN
    <3>1. CASE Admit(c)
      <4>1. health' = health /\ allowed' \in {allowed, TRUE}
        BY <3>1, Zenon DEF Admit
      <4> QED BY <1>0, <4>1 DEF KnownType
    <3>2. CASE SetUp(c)
      BY <3>2 DEF SetUp, Healths
    <3>3. CASE StopIpc(c)
      <4>1. UNCHANGED known \/ Recover("Displaced")
        BY <3>3, Zenon DEF StopIpc
      <4> QED BY <1>0, <4>1 DEF Recover, known, KnownType
    <3>4. CASE ServiceRefresh(c)
      BY <3>4 DEF ServiceRefresh
    <3>5. CASE ServiceIpc(c)
      <4>1. UNCHANGED known \/ (health' = "Blocked" /\ allowed' = FALSE)
        BY <3>5, Zenon DEF ServiceIpc
      <4> QED BY <1>0, <4>1 DEF known, KnownType, Healths
    <3>6. CASE RollBack(c)
      <4>1. health' = health /\ allowed' = IF op[c].kind = "continue" THEN FALSE ELSE allowed
        BY <3>6, Zenon DEF RollBack
      <4> QED BY <1>0, <4>1 DEF KnownType
    <3> QED BY <1>0, <1>2, <3>1, <3>2, <3>3, <3>4, <3>5, <3>6, WorkFrame DEF known, KnownType
  <2>2. svcCore' \in BOOLEAN
    <3>1. CASE SetUp(c) \/ StopIpc(c)
      <4>1. svcCore' \in {svcCore, FALSE}
        BY <3>1, StopIpcMoves DEF SetUp
      <4> QED BY <1>0, <4>1 DEF KnownType
    <3>2. CASE ServiceIpc(c)
      BY <1>0, <3>2 DEF ServiceIpc, Grant, svc, KnownType
    <3> QED BY <1>0, <1>2, <3>1, <3>2, WorkFrame DEF svc, KnownType
  <2> QED BY <2>1, <2>2 DEF KnownType
<1>3. ASSUME NEW c \in Calls, NEW k \in Kinds, Begin(c, k) PROVE UNCHANGED <<known, svc>>
  BY <1>3, BeginMoves
<1>4. ASSUME NEW p \in Pids, ChildEnds(p) \/ Drain(p) PROVE UNCHANGED <<known, svc>>
  BY <1>4 DEF ChildEnds, Drain, DrainTells, DrainInvalidates, DrainClears
<1>5. ASSUME NEW m \in monitors, Monitor(m) PROVE KnownType'
  <2>1. CASE UNCHANGED <<known, svc>>
    BY <1>1, <2>1
  <2>2. CASE UNCHANGED svc /\ Recover(m.why)
    BY <1>0, <2>2 DEF Recover, KnownType, known, svc, Healths
  <2> QED BY <1>5, <2>1, <2>2
        DEF Monitor, MonitorEnds, MonitorClaims, MonitorInvalidates, MonitorRecovers, known
<1>6. CASE Observe \/ ServiceCoreEnds \/ ServiceCoreReturns \/ Displaced
  BY <1>0, <1>6 DEF Observe, ServiceCoreEnds, ServiceCoreReturns, Displaced, KnownType, known, svc
<1> QED BY <1>1, <1>2, <1>3, <1>4, <1>5, <1>6 DEF Next, vars

\* The types of the machine.
LEMMA OsTypeStep ==
  ASSUME TypeOK, [Next]_vars PROVE OsType'
<1>0. OsType /\ IsMac \in BOOLEAN
  BY TypeParts, LifecycleAssumption
<1>1. CASE UNCHANGED os
  BY <1>0, <1>1 DEF OsType, os
<1>2. CASE StopGuard \/ Cleared \/ ClearFailed
  BY <1>0, <1>2 DEF StopGuard, Cleared, ClearFailed, OsType
<1>3. ASSUME NEW why, Recover(why) PROVE OsType'
  <2>1. guard' = FALSE /\ UNCHANGED enable /\ proxy' \in {proxy, FALSE}
    BY <1>3 DEF Recover
  <2> QED BY <1>0, <2>1 DEF OsType
<1>4. ASSUME NEW v \in BOOLEAN, Written(v) PROVE OsType'
  <2>1. proxy' = v /\ guard' = FALSE /\ UNCHANGED enable
    BY <1>4, Zenon DEF Written
  <2> QED BY <1>0, <1>4, <2>1 DEF OsType
<1>5. CASE NotWritten
  <2>1. proxy' \in {proxy, FALSE} /\ guard' \in {guard, FALSE} /\ UNCHANGED enable
    BY <1>5, Zenon DEF NotWritten
  <2> QED BY <1>0, <2>1 DEF OsType
<1>6. ASSUME NEW c \in Calls, Work(c) PROVE OsType'
  <2>1. CASE LockWrite(c)
    <3>1. enable' \in BOOLEAN /\ UNCHANGED <<proxy, guard>>
      <4>1. (enable' = enable \/ enable' = ~enable) /\ UNCHANGED <<proxy, guard>>
        BY <2>1, Zenon DEF LockWrite
      <4> QED BY <1>0, <4>1, Zenon DEF OsType
    <3> QED BY <1>0, <3>1 DEF OsType
  <2>2. CASE Return(c)
    <3>1. enable' \in BOOLEAN /\ UNCHANGED <<proxy, guard>>
      <4>1. /\ enable' = IF op[c].kind = "sysproxy" /\ op[c].at = "failed" THEN ~enable ELSE enable
            /\ UNCHANGED <<proxy, guard>>
        BY <2>2, Zenon DEF Return
      <4>2. CASE op[c].kind = "sysproxy" /\ op[c].at = "failed"
        BY <4>1, <4>2, Zenon
      <4>3. CASE ~(op[c].kind = "sysproxy" /\ op[c].at = "failed")
        <5>1. enable' = enable
          BY <4>1, <4>3, Zenon
        <5> QED BY <1>0, <4>1, <5>1 DEF OsType
      <4> QED BY <4>2, <4>3
    <3> QED BY <1>0, <3>1 DEF OsType
  <2>3. CASE StopIpc(c)
    <3>1. \/ proxy' = (proxy /\ ~IsMac) /\ UNCHANGED <<enable, guard>>
          \/ Recover("Displaced") \/ UNCHANGED os
      BY <2>3, Zenon DEF StopIpc
    <3>2. CASE proxy' = (proxy /\ ~IsMac) /\ UNCHANGED <<enable, guard>>
      <4>1. proxy' \in BOOLEAN
        BY <3>2, Zenon
      <4> QED BY <1>0, <3>2, <4>1 DEF OsType
    <3> QED BY <1>1, <1>3, <3>1, <3>2
  <2>4. CASE ApplyWrite(c)
    <3>1. Written(enable) \/ NotWritten
      BY <2>4, Zenon DEF ApplyWrite
    <3> QED BY <1>0, <1>4, <1>5, <3>1 DEF OsType
  <2>5. CASE SetProxy(c)
    <3>1. UNCHANGED os \/ Written(FALSE) \/ NotWritten
      BY <2>5, Zenon DEF SetProxy
    <3> QED BY <1>1, <1>4, <1>5, <3>1
  <2>6. CASE ApplyGuard(c)
    <3>1. guard' \in {FALSE, enable} /\ UNCHANGED <<enable, proxy>>
      BY <2>6, Zenon DEF ApplyGuard
    <3> QED BY <1>0, <3>1 DEF OsType
  <2>7. UNCHANGED os \/ StopGuard \/ Cleared \/ ClearFailed \/ ~(Admit(c) \/ StopProxy(c)
          \/ Decide(c) \/ StartFailed(c) \/ SidecarProbe(c) \/ ApplyUndo(c) \/ RollBack(c) \/ Undo(c))
    BY Zenon DEF Admit, StopProxy, Decide, StartFailed, SidecarProbe, ApplyUndo, RollBack, Undo, os
  <2> QED BY <1>1, <1>2, <1>6, <2>1, <2>2, <2>3, <2>4, <2>5, <2>6, <2>7, WorkFrame
<1>7. ASSUME NEW c \in Calls, NEW k \in Kinds, Begin(c, k) PROVE UNCHANGED os
  BY <1>7, Zenon DEF Begin
<1>8. ASSUME NEW p \in Pids, ChildEnds(p) \/ Drain(p) PROVE UNCHANGED os \/ StopGuard
  BY <1>8 DEF ChildEnds, Drain, DrainTells, DrainInvalidates, DrainClears
<1>9. ASSUME NEW m \in monitors, Monitor(m) PROVE UNCHANGED os \/ Recover(m.why)
  BY <1>9 DEF Monitor, MonitorEnds, MonitorClaims, MonitorInvalidates, MonitorRecovers
<1>10. CASE Observe \/ ServiceCoreEnds \/ ServiceCoreReturns \/ Displaced
  BY <1>1, <1>10 DEF Observe, ServiceCoreEnds, ServiceCoreReturns, Displaced
<1> QED BY <1>1, <1>2, <1>3, <1>6, <1>7, <1>8, <1>9, <1>10 DEF Next, vars

\* Every step keeps the types.
LEMMA TypeStep ==
  ASSUME TypeOK, CallsFit, SpawnsPaid, [Next]_vars PROVE TypeOK'
<1>1. /\ LockType' /\ OpType' /\ CoreType' /\ SideType' /\ SessionType' /\ MonitorType'
      /\ KnownType' /\ OsType' /\ LifeType'
  BY LockTypeStep, OpTypeStep, CoreTypeStep, SideTypeStep, SessionTypeStep, MonitorTypeStep,
     KnownTypeStep, OsTypeStep, LifeTypeStep
<1> QED BY <1>1, TypeParts, PTL

-----------------------------------------------------------------------------
(* What the holder of the lifecycle lock relies on, action by action.      *)

\* Each stage hands on the mode that the next relies on.
LEMMA HolderMode ==
  ASSUME TypeOK, CallsFit, ModeFits, SidecarFits, NEW c \in Calls, Locked(c)
  PROVE  ModeFits'
<1>0. lock \in Calls \cup {None} /\ None \notin Calls
  BY LifecycleAssumption DEF TypeOK
<1>1. CASE Admit(c)
  BY <1>1, <1>0, Moves, RouteBack
  DEF Admit, Holds, StopGuard, Moved, Stage, ModeFits, SidecarFits, StartPath, ApplyPath,
      ServicePath, SidecarPath, Rising, Belongs, locks, core
<1>2. CASE Restage(c)
  BY <1>2, <1>0, Moves, RouteBack
  DEF Restage, Holds, Moved, Stage, ModeFits, SidecarFits, StartPath, ApplyPath, ServicePath,
      SidecarPath, Rising, Belongs, locks, core
<1>3. CASE SetUp(c)
  BY <1>3, <1>0, Moves, RouteBack
  DEF SetUp, Holds, GivesUp, Moved, Stage, ModeFits, SidecarFits, StartPath, ApplyPath,
      ServicePath, SidecarPath, Rising, Belongs, locks, core
<1>4. CASE Plan(c)
  BY <1>4, <1>0, PlanMoves
  DEF Holds, Moved, Stage, ModeFits, SidecarFits, StartPath, ApplyPath, ServicePath, SidecarPath,
      Rising, Belongs, locks, core
<1>5. CASE StopProxy(c)
  BY <1>5, <1>0, Moves, RouteBack
  DEF StopProxy, Holds, Cleared, ClearFailed, StopGuard, Moved, Stage, ModeFits, SidecarFits,
      StartPath, ApplyPath, ServicePath, SidecarPath, Rising, Belongs, locks, core
<1>6. CASE StopCore(c)
  BY <1>6, <1>0, Moves, RouteBack
  DEF StopCore, Holds, AfterStop, Moved, Stage, ModeFits, SidecarFits, StartPath, ApplyPath,
      ServicePath, SidecarPath, Rising, Belongs, locks, core
<1>7. CASE StopExit(c)
  BY <1>7, <1>0, Moves, RouteBack
  DEF StopExit, Holds, Exited, CoreStopped, NotReady, AfterStop, Moved, Stage, ModeFits,
      SidecarFits, StartPath, ApplyPath, ServicePath, SidecarPath, Rising, Belongs, locks, core
<1>8. CASE StopIpc(c)
  BY <1>8, <1>0, StopIpcMoves
  DEF CoreStopped, NotReady, AfterStop, StartMonitor, Moved, Stage, ModeFits, SidecarFits,
      StartPath, ApplyPath, ServicePath, SidecarPath, Rising, Belongs, locks, core
<1>9. CASE Start(c)
  BY <1>9, <1>0, Moves, RouteBack
  DEF Start, Holds, Moved, Stage, ModeFits, SidecarFits, StartPath, ApplyPath, ServicePath,
      SidecarPath, Rising, Belongs, locks, core
<1>10. CASE Decide(c)
  BY <1>10, <1>0, Moves, RouteBack
  DEF Decide, Holds, StopGuard, CoreStopped, NotReady, Moved, Stage, ModeFits, SidecarFits,
      StartPath, ApplyPath, ServicePath, SidecarPath, Rising, Belongs, locks, core
<1>11. CASE StartFailed(c)
  BY <1>11, <1>0, Moves, RouteBack
  DEF StartFailed, Holds, StopGuard, CoreStopped, NotReady, GivesUp, Moved, Stage, ModeFits,
      SidecarFits, StartPath, ApplyPath, ServicePath, SidecarPath, Rising, Belongs, locks, core
<1>12. CASE ServiceRefresh(c)
  BY <1>12, <1>0, Moves, RouteBack
  DEF ServiceRefresh, Holds, Moved, Stage, ModeFits, SidecarFits, StartPath, ApplyPath,
      ServicePath, SidecarPath, Rising, Belongs, locks, core
<1>13. CASE ServiceStart(c)
  BY <1>13, <1>0, Moves, RouteBack
  DEF ServiceStart, Holds, Moved, Stage, ModeFits, SidecarFits, StartPath, ApplyPath, ServicePath,
      SidecarPath, Rising, Belongs, locks, core
<1>14. CASE ServiceIpc(c)
  BY <1>14, <1>0, Moves, RouteBack
  DEF ServiceIpc, Holds, Grant, StartMonitor, Moved, Stage, ModeFits, SidecarFits, StartPath,
      ApplyPath, ServicePath, SidecarPath, Rising, Belongs, locks, core
<1>15. CASE ServiceStarted(c)
  BY <1>15, <1>0, Moves, RouteBack
  DEF ServiceStarted, Holds, StartMonitor, NowReady, CoreStarted, Moved, Stage, ModeFits,
      SidecarFits, StartPath, ApplyPath, ServicePath, SidecarPath, Rising, Belongs, locks, core
<1>16. CASE SidecarExit(c)
  BY <1>16, <1>0, Moves, RouteBack
  DEF SidecarExit, Holds, Exited, Moved, Stage, ModeFits, SidecarFits, StartPath, ApplyPath,
      ServicePath, SidecarPath, Rising, Belongs, locks, core
<1>17. CASE SidecarReserve(c)
  BY <1>17, <1>0, Moves, RouteBack
  DEF SidecarReserve, Holds, CoreStopped, NotReady, Moved, Stage, ModeFits, SidecarFits, StartPath,
      ApplyPath, ServicePath, SidecarPath, Rising, Belongs, locks, core
<1>18. CASE SidecarSpawn(c)
  BY <1>18, <1>0, Moves, RouteBack
  DEF SidecarSpawn, Holds, NowReady, Moved, Stage, ModeFits, SidecarFits, StartPath, ApplyPath,
      ServicePath, SidecarPath, Rising, Belongs, locks, core
<1>19. CASE SidecarProbe(c)
  BY <1>19, <1>0, Moves, RouteBack
  DEF SidecarProbe, Holds, StopGuard, CoreStopped, NotReady, Killed, Moved, Stage, ModeFits,
      SidecarFits, StartPath, ApplyPath, ServicePath, SidecarPath, Rising, Belongs, locks, core
<1>20. CASE SidecarReady(c)
  BY <1>20, <1>0, Moves, RouteBack
  DEF SidecarReady, Holds, CoreStarted, Moved, Stage, ModeFits, SidecarFits, StartPath, ApplyPath,
      ServicePath, SidecarPath, Rising, Belongs, locks, core
<1>21. CASE Started(c)
  BY <1>21, <1>0, Moves, RouteBack
  DEF Started, Holds, GivesUp, Moved, Stage, ModeFits, SidecarFits, StartPath, ApplyPath,
      ServicePath, SidecarPath, Rising, Belongs, locks, core
<1>22. CASE Capture(c)
  BY <1>22, <1>0, CaptureMoves, RouteBack
  DEF Holds, GivesUp, Moved, Stage, ModeFits, SidecarFits, StartPath, ApplyPath, ServicePath,
      SidecarPath, Rising, Belongs, locks, core, procs, side, svc, owner, known, os, life
<1>23. CASE ApplyWrite(c)
  BY <1>23, <1>0, Moves, RouteBack, WriteKeeps
  DEF ApplyWrite, Holds, GivesUp, Moved, Stage, ModeFits, SidecarFits, StartPath, ApplyPath,
      ServicePath, SidecarPath, Rising, Belongs, locks, core
<1>24. CASE ApplyCheck(c)
  BY <1>24, <1>0, Moves, RouteBack
  DEF ApplyCheck, Holds, Moved, Stage, ModeFits, SidecarFits, StartPath, ApplyPath, ServicePath,
      SidecarPath, Rising, Belongs, locks, core
<1>25. CASE ApplyGuard(c)
  BY <1>25, <1>0, Moves, RouteBack
  DEF ApplyGuard, Holds, GivesUp, Moved, Stage, ModeFits, SidecarFits, StartPath, ApplyPath,
      ServicePath, SidecarPath, Rising, Belongs, locks, core
<1>26. CASE ApplyRecheck(c)
  BY <1>26, <1>0, Moves, RouteBack
  DEF ApplyRecheck, Holds, Moved, Stage, ModeFits, SidecarFits, StartPath, ApplyPath, ServicePath,
      SidecarPath, Rising, Belongs, locks, core
<1>27. CASE ApplyUndo(c)
  BY <1>27, <1>0, Moves, RouteBack
  DEF ApplyUndo, Holds, Cleared, ClearFailed, GivesUp, Moved, Stage, ModeFits, SidecarFits,
      StartPath, ApplyPath, ServicePath, SidecarPath, Rising, Belongs, locks, core
<1>28. CASE SetProxy(c)
  <2>1. /\ op[c].at = "proxy" /\ lock = c /\ lock' = c /\ mode' = mode
        /\ Moved(c, op[c].kind, "apply") \/ Moved(c, op[c].kind, "ok") \/ Moved(c, op[c].kind, "failed")
    BY <1>28, SetProxyMoves DEF Holds, locks, core
  <2>2. op[c].kind = "sysproxy"
    BY <2>1, RouteBack DEF Belongs
  <2> QED BY <1>0, <2>1, <2>2
          DEF Moved, Stage, ModeFits, ApplyPath, ServicePath, SidecarPath, Rising
<1>29. CASE RollBack(c)
  BY <1>29, <1>0, Moves, RouteBack
  DEF RollBack, Holds, Cleared, ClearFailed, Moved, Stage, ModeFits, SidecarFits, StartPath,
      ApplyPath, ServicePath, SidecarPath, Rising, Belongs, locks, core
<1>30. CASE Undo(c)
  BY <1>30, <1>0, Moves, RouteBack
  DEF Undo, Holds, StopGuard, CoreStopped, NotReady, Moved, Stage, ModeFits, SidecarFits,
      StartPath, ApplyPath, ServicePath, SidecarPath, Rising, Belongs, locks, core
<1> QED BY <1>1, <1>2, <1>3, <1>4, <1>5, <1>6, <1>7, <1>8, <1>9, <1>10, <1>11, <1>12, <1>13, <1>14,
      <1>15, <1>16, <1>17, <1>18, <1>19, <1>20, <1>21, <1>22, <1>23, <1>24, <1>25, <1>26, <1>27,
      <1>28, <1>29, <1>30 DEF Locked

\* PAC is served while a mode is reported, and no longer.
LEMMA HolderPac ==
  ASSUME TypeOK, CallsFit, ModeFits, PacFits, NEW c \in Calls, Locked(c)
  PROVE  PacFits'
<1>0. lock \in Calls \cup {None} /\ None \notin Calls /\ Work(c)
  BY LifecycleAssumption DEF TypeOK, Locked, Work
<1>1. CASE StopExit(c)
  BY <1>1, <1>0, Moves, RouteBack
  DEF StopExit, Holds, Exited, CoreStopped, NotReady, AfterStop, Moved, Stage, PacFits, ModeFits,
      Rising, Belongs, locks, core
<1>2. CASE StopIpc(c)
  BY <1>2, <1>0, StopIpcMoves
  DEF CoreStopped, NotReady, AfterStop, StartMonitor, Moved, Stage, PacFits, ModeFits, Rising,
      Belongs, locks, core
<1>3. CASE Decide(c)
  BY <1>3, <1>0, Moves, RouteBack
  DEF Decide, Holds, StopGuard, CoreStopped, NotReady, Moved, Stage, PacFits, ModeFits, Rising,
      Belongs, locks, core
<1>4. CASE StartFailed(c)
  BY <1>4, <1>0, Moves, RouteBack
  DEF StartFailed, Holds, StopGuard, CoreStopped, NotReady, GivesUp, Moved, Stage, PacFits,
      ModeFits, Rising, Belongs, locks, core
<1>5. CASE ServiceStarted(c)
  BY <1>5, <1>0, Moves, RouteBack
  DEF ServiceStarted, Holds, StartMonitor, NowReady, CoreStarted, Moved, Stage, PacFits, ModeFits,
      Rising, Belongs, locks, core
<1>6. CASE SidecarReserve(c)
  BY <1>6, <1>0, Moves, RouteBack
  DEF SidecarReserve, Holds, CoreStopped, NotReady, Moved, Stage, PacFits, ModeFits, Rising,
      Belongs, locks, core
<1>7. CASE SidecarSpawn(c)
  BY <1>7, <1>0, Moves, RouteBack
  DEF SidecarSpawn, Holds, NowReady, Moved, Stage, PacFits, ModeFits, Rising, Belongs, locks, core
<1>8. CASE SidecarProbe(c)
  BY <1>8, <1>0, Moves, RouteBack
  DEF SidecarProbe, Holds, StopGuard, CoreStopped, NotReady, Killed, Moved, Stage, PacFits,
      ModeFits, Rising, Belongs, locks, core
<1>9. CASE SidecarReady(c)
  BY <1>9, <1>0, Moves, RouteBack
  DEF SidecarReady, Holds, CoreStarted, Moved, Stage, PacFits, ModeFits, Rising, Belongs, locks,
      core
<1>10. CASE Undo(c)
  BY <1>10, <1>0, Moves, RouteBack
  DEF Undo, Holds, StopGuard, CoreStopped, NotReady, Moved, Stage, PacFits, ModeFits, Rising,
      Belongs, locks, core
<1>11. CASE UNCHANGED core
  BY <1>11 DEF PacFits, core
<1> QED BY <1>0, <1>1, <1>2, <1>3, <1>4, <1>5, <1>6, <1>7, <1>8, <1>9, <1>10, <1>11, WorkFrame

\* The guard starts beside a core only, and stops before it.
LEMMA HolderGuard ==
  ASSUME TypeOK, CallsFit, ModeFits, GuardFits, NEW c \in Calls, Locked(c)
  PROVE  GuardFits'
<1>0. lock \in Calls \cup {None} /\ None \notin Calls
  BY LifecycleAssumption DEF TypeOK
<1>1. CASE Admit(c)
  BY <1>1, <1>0, Moves, RouteBack
  DEF Admit, Holds, StopGuard, Moved, Stage, GuardFits, ModeFits, Rising, SidecarPath, ServicePath,
      Belongs, locks, core, os
<1>2. CASE Restage(c)
  BY <1>2, <1>0, Moves, RouteBack
  DEF Restage, Holds, Moved, Stage, GuardFits, ModeFits, Rising, SidecarPath, ServicePath, Belongs,
      locks, core, os
<1>3. CASE SetUp(c)
  BY <1>3, <1>0, Moves, RouteBack
  DEF SetUp, Holds, GivesUp, Moved, Stage, GuardFits, ModeFits, Rising, SidecarPath, ServicePath,
      Belongs, locks, core, os
<1>4. CASE Plan(c)
  BY <1>4, <1>0, PlanMoves
  DEF Holds, Moved, Stage, GuardFits, ModeFits, Rising, SidecarPath, ServicePath, Belongs, locks,
      core, os
<1>5. CASE StopProxy(c)
  BY <1>5, <1>0, Moves, RouteBack
  DEF StopProxy, Holds, Cleared, ClearFailed, StopGuard, Moved, Stage, GuardFits, ModeFits, Rising,
      SidecarPath, ServicePath, Belongs, locks, core, os
<1>6. CASE StopCore(c)
  BY <1>6, <1>0, Moves, RouteBack
  DEF StopCore, Holds, AfterStop, Moved, Stage, GuardFits, ModeFits, Rising, SidecarPath,
      ServicePath, Belongs, locks, core, os
<1>7. CASE StopExit(c)
  BY <1>7, <1>0, Moves, RouteBack
  DEF StopExit, Holds, Exited, CoreStopped, NotReady, AfterStop, Moved, Stage, GuardFits, ModeFits,
      Rising, SidecarPath, ServicePath, Belongs, locks, core, os
<1>8. CASE StopIpc(c)
  BY <1>8, <1>0, StopIpcMoves
  DEF CoreStopped, NotReady, AfterStop, StartMonitor, Moved, Stage, GuardFits, ModeFits, Rising,
      SidecarPath, ServicePath, Belongs, locks, core, os
<1>9. CASE Start(c)
  BY <1>9, <1>0, Moves, RouteBack
  DEF Start, Holds, Moved, Stage, GuardFits, ModeFits, Rising, SidecarPath, ServicePath, Belongs,
      locks, core, os
<1>10. CASE Decide(c)
  BY <1>10, <1>0, Moves, RouteBack
  DEF Decide, Holds, StopGuard, CoreStopped, NotReady, Moved, Stage, GuardFits, ModeFits, Rising,
      SidecarPath, ServicePath, Belongs, locks, core, os
<1>11. CASE StartFailed(c)
  BY <1>11, <1>0, Moves, RouteBack
  DEF StartFailed, Holds, StopGuard, CoreStopped, NotReady, GivesUp, Moved, Stage, GuardFits,
      ModeFits, Rising, SidecarPath, ServicePath, Belongs, locks, core, os
<1>12. CASE ServiceRefresh(c)
  BY <1>12, <1>0, Moves, RouteBack
  DEF ServiceRefresh, Holds, Moved, Stage, GuardFits, ModeFits, Rising, SidecarPath, ServicePath,
      Belongs, locks, core, os
<1>13. CASE ServiceStart(c)
  BY <1>13, <1>0, Moves, RouteBack
  DEF ServiceStart, Holds, Moved, Stage, GuardFits, ModeFits, Rising, SidecarPath, ServicePath,
      Belongs, locks, core, os
<1>14. CASE ServiceIpc(c)
  BY <1>14, <1>0, Moves, RouteBack
  DEF ServiceIpc, Holds, Grant, StartMonitor, Moved, Stage, GuardFits, ModeFits, Rising,
      SidecarPath, ServicePath, Belongs, locks, core, os
<1>15. CASE ServiceStarted(c)
  BY <1>15, <1>0, Moves, RouteBack
  DEF ServiceStarted, Holds, StartMonitor, NowReady, CoreStarted, Moved, Stage, GuardFits,
      ModeFits, Rising, SidecarPath, ServicePath, Belongs, locks, core, os
<1>16. CASE SidecarExit(c)
  BY <1>16, <1>0, Moves, RouteBack
  DEF SidecarExit, Holds, Exited, Moved, Stage, GuardFits, ModeFits, Rising, SidecarPath,
      ServicePath, Belongs, locks, core, os
<1>17. CASE SidecarReserve(c)
  BY <1>17, <1>0, Moves, RouteBack
  DEF SidecarReserve, Holds, CoreStopped, NotReady, Moved, Stage, GuardFits, ModeFits, Rising,
      SidecarPath, ServicePath, Belongs, locks, core, os
<1>18. CASE SidecarSpawn(c)
  BY <1>18, <1>0, Moves, RouteBack
  DEF SidecarSpawn, Holds, NowReady, Moved, Stage, GuardFits, ModeFits, Rising, SidecarPath,
      ServicePath, Belongs, locks, core, os
<1>19. CASE SidecarProbe(c)
  BY <1>19, <1>0, Moves, RouteBack
  DEF SidecarProbe, Holds, StopGuard, CoreStopped, NotReady, Killed, Moved, Stage, GuardFits,
      ModeFits, Rising, SidecarPath, ServicePath, Belongs, locks, core, os
<1>20. CASE SidecarReady(c)
  BY <1>20, <1>0, Moves, RouteBack
  DEF SidecarReady, Holds, CoreStarted, Moved, Stage, GuardFits, ModeFits, Rising, SidecarPath,
      ServicePath, Belongs, locks, core, os
<1>21. CASE Started(c)
  BY <1>21, <1>0, Moves, RouteBack
  DEF Started, Holds, GivesUp, Moved, Stage, GuardFits, ModeFits, Rising, SidecarPath, ServicePath,
      Belongs, locks, core, os
<1>22. CASE Capture(c)
  BY <1>22, <1>0, CaptureMoves
  DEF Holds, GivesUp, Moved, Stage, GuardFits, ModeFits, Rising, SidecarPath, ServicePath, Belongs,
      locks, core, os
<1>23. CASE ApplyWrite(c)
  BY <1>23, <1>0, Moves, RouteBack, WriteKeeps
  DEF ApplyWrite, Holds, GivesUp, Moved, Stage, GuardFits, ModeFits, Rising, SidecarPath,
      ServicePath, Belongs, locks, core, os
<1>24. CASE ApplyCheck(c)
  BY <1>24, <1>0, Moves, RouteBack
  DEF ApplyCheck, Holds, Moved, Stage, GuardFits, ModeFits, Rising, SidecarPath, ServicePath,
      Belongs, locks, core, os
<1>25. CASE ApplyGuard(c)
  BY <1>25, <1>0, Moves, RouteBack
  DEF ApplyGuard, Holds, GivesUp, Moved, Stage, GuardFits, ModeFits, Rising, SidecarPath,
      ServicePath, Belongs, locks, core, os
<1>26. CASE ApplyRecheck(c)
  BY <1>26, <1>0, Moves, RouteBack
  DEF ApplyRecheck, Holds, Moved, Stage, GuardFits, ModeFits, Rising, SidecarPath, ServicePath,
      Belongs, locks, core, os
<1>27. CASE ApplyUndo(c)
  BY <1>27, <1>0, Moves, RouteBack
  DEF ApplyUndo, Holds, Cleared, ClearFailed, GivesUp, Moved, Stage, GuardFits, ModeFits, Rising,
      SidecarPath, ServicePath, Belongs, locks, core, os
<1>28. CASE SetProxy(c)
  BY <1>28, <1>0, SetProxyMoves
  DEF Holds, Moved, Stage, GuardFits, ModeFits, Rising, SidecarPath, ServicePath, Belongs, locks,
      core, os
<1>29. CASE RollBack(c)
  BY <1>29, <1>0, Moves, RouteBack
  DEF RollBack, Holds, Cleared, ClearFailed, Moved, Stage, GuardFits, ModeFits, Rising,
      SidecarPath, ServicePath, Belongs, locks, core, os
<1>30. CASE Undo(c)
  BY <1>30, <1>0, Moves, RouteBack
  DEF Undo, Holds, StopGuard, CoreStopped, NotReady, Moved, Stage, GuardFits, ModeFits, Rising,
      SidecarPath, ServicePath, Belongs, locks, core, os
<1> QED BY <1>1, <1>2, <1>3, <1>4, <1>5, <1>6, <1>7, <1>8, <1>9, <1>10, <1>11, <1>12, <1>13, <1>14,
      <1>15, <1>16, <1>17, <1>18, <1>19, <1>20, <1>21, <1>22, <1>23, <1>24, <1>25, <1>26, <1>27,
      <1>28, <1>29, <1>30 DEF Locked

\* The child reported, or about to be, is the one that runs.
LEMMA HolderSide ==
  ASSUME TypeOK, TypeOK', CallsFit, ModeFits, SidecarFits, ChildrenFit, ReservationFits, NEW c \in Calls, Locked(c)
  PROVE  SidecarFits'
<1>0. lock \in Calls \cup {None} /\ None \notin Calls
  BY LifecycleAssumption DEF TypeOK
<1>1. CASE Admit(c)
  BY <1>1, <1>0, Moves, RouteBack
  DEF Admit, Holds, StopGuard, Moved, Stage, SidecarFits, ModeFits, Current, Belongs, locks, core,
      side, procs
<1>2. CASE Restage(c)
  BY <1>2, <1>0, Moves, RouteBack
  DEF Restage, Holds, Moved, Stage, SidecarFits, ModeFits, Current, Belongs, locks, core, side,
      procs
<1>3. CASE SetUp(c)
  BY <1>3, <1>0, Moves, RouteBack
  DEF SetUp, Holds, GivesUp, Moved, Stage, SidecarFits, ModeFits, Current, Belongs, locks, core,
      side, procs
<1>4. CASE Plan(c)
  BY <1>4, <1>0, PlanMoves
  DEF Holds, Moved, Stage, SidecarFits, ModeFits, Current, Belongs, locks, core, side, procs
<1>5. CASE StopProxy(c)
  BY <1>5, <1>0, Moves, RouteBack
  DEF StopProxy, Holds, Cleared, ClearFailed, StopGuard, Moved, Stage, SidecarFits, ModeFits,
      Current, Belongs, locks, core, side, procs
<1>6. CASE StopCore(c)
  <2>1. Stage = "stopCore" /\ lock' = lock /\ lock = c /\ UNCHANGED <<mode, ready, spawned, drain, drainGen>>
    BY <1>0, <1>6 DEF StopCore, Holds, Stage, locks, core, procs
  <2>2. \/ /\ mode # "Sidecar" /\ UNCHANGED <<child, proc>>
           /\ Moved(c, op[c].kind, AfterStop(op[c].kind)) \/ Moved(c, op[c].kind, "stopIpc")
        \/ /\ mode = "Sidecar" /\ child' = 0 /\ Moved(c, op[c].kind, "stopExit")
           /\ IF child # 0 THEN Killed(child) ELSE UNCHANGED proc
    BY <1>6, Moves DEF StopCore, Holds
  <2>3. CASE mode # "Sidecar"
    <3>1. Stage' \notin {"stopExit", "sideProbe", "sideReady"}
      BY <1>0, <2>1, <2>2, <2>3 DEF Stage, Moved, AfterStop
    <3> QED BY <1>0, <2>1, <2>2, <2>3, <3>1 DEF SidecarFits, Current
  <2>4. CASE mode = "Sidecar"
    <3>1. Stage' = "stopExit"
      BY <1>0, <2>1, <2>2, <2>4 DEF Stage, Moved
    <3>2. \A p \in Pids : proc'[p] # "up"
      <4>1. child # 0 /\ Killed(child) /\ \A p \in Pids : proc[p] = "up" => p = child
        BY <1>0, <2>1, <2>2, <2>4 DEF SidecarFits, Current
      <4>2. \A p \in Pids : proc'[p] = IF p = child /\ proc[p] = "up" THEN "dying" ELSE proc[p]
        BY <4>1 DEF Killed, TypeOK
      <4> QED BY <4>1, <4>2
    <3> QED BY <2>1, <2>2, <2>4, <3>1, <3>2 DEF SidecarFits, Current
  <2> QED BY <2>3, <2>4
<1>7. CASE StopExit(c)
  BY <1>7, <1>0, Moves, RouteBack
  DEF StopExit, Holds, Exited, CoreStopped, NotReady, AfterStop, Moved, Stage, SidecarFits,
      ModeFits, Current, Belongs, locks, core, side, procs
<1>8. CASE StopIpc(c)
  <2>1. /\ Stage = "stopIpc" /\ Stage' \notin {"stopExit", "sideProbe", "sideReady"}
        /\ UNCHANGED side
        /\ CoreStopped \/ UNCHANGED core
    BY <1>0, <1>8, StopIpcMoves DEF Stage, Moved, AfterStop
  <2>2. mode = "Service" /\ child = 0
    BY <1>0, <2>1 DEF ModeFits, SidecarFits
  <2>3. CASE CoreStopped
    BY <1>0, <2>1, <2>2, <2>3 DEF CoreStopped, NotReady, SidecarFits, Current, side, procs, TypeOK
  <2>4. CASE UNCHANGED core
    BY <1>0, <2>1, <2>2, <2>4 DEF SidecarFits, Current, side, procs, core
  <2> QED BY <2>1, <2>3, <2>4
<1>9. CASE Start(c)
  BY <1>9, <1>0, Moves, RouteBack
  DEF Start, Holds, Moved, Stage, SidecarFits, ModeFits, Current, Belongs, locks, core, side, procs
<1>10. CASE Decide(c)
  BY <1>10, <1>0, Moves, RouteBack
  DEF Decide, Holds, StopGuard, CoreStopped, NotReady, Moved, Stage, SidecarFits, ModeFits,
      Current, Belongs, locks, core, side, procs
<1>11. CASE StartFailed(c)
  BY <1>11, <1>0, Moves, RouteBack
  DEF StartFailed, Holds, StopGuard, CoreStopped, NotReady, GivesUp, Moved, Stage, SidecarFits,
      ModeFits, Current, Belongs, locks, core, side, procs
<1>12. CASE ServiceRefresh(c)
  BY <1>12, <1>0, Moves, RouteBack
  DEF ServiceRefresh, Holds, Moved, Stage, SidecarFits, ModeFits, Current, Belongs, locks, core,
      side, procs
<1>13. CASE ServiceStart(c)
  BY <1>13, <1>0, Moves, RouteBack
  DEF ServiceStart, Holds, Moved, Stage, SidecarFits, ModeFits, Current, Belongs, locks, core,
      side, procs
<1>14. CASE ServiceIpc(c)
  BY <1>14, <1>0, Moves, RouteBack
  DEF ServiceIpc, Holds, Grant, StartMonitor, Moved, Stage, SidecarFits, ModeFits, Current,
      Belongs, locks, core, side, procs
<1>15. CASE ServiceStarted(c)
  BY <1>15, <1>0, Moves, RouteBack
  DEF ServiceStarted, Holds, StartMonitor, NowReady, CoreStarted, Moved, Stage, SidecarFits,
      ModeFits, Current, Rising, ServicePath, SidecarPath, TypeOK, Belongs, locks, core, procs,
      side, svc, owner, known, os, life
<1>16. CASE SidecarExit(c)
  BY <1>16, <1>0, Moves, RouteBack
  DEF SidecarExit, Holds, Exited, Moved, Stage, SidecarFits, ModeFits, Current, Belongs, locks,
      core, side, procs
<1>17. CASE SidecarReserve(c)
  BY <1>17, <1>0, Moves, RouteBack
  DEF SidecarReserve, Holds, CoreStopped, NotReady, Moved, Stage, SidecarFits, ModeFits, Current,
      Rising, ServicePath, SidecarPath, TypeOK, Belongs, locks, core, procs, side, svc, owner,
      known, os, life
<1>18. CASE SidecarSpawn(c)
  <2>1. /\ Stage = "sideSpawn" /\ lock' = lock /\ lock = c /\ UNCHANGED <<mode, child>>
        /\ mode = "NotRunning" /\ child = 0 /\ ~ready.active
        /\ \A p \in Pids : proc[p] # "up"
    <3>1. Stage = "sideSpawn" /\ lock' = lock /\ lock = c /\ UNCHANGED <<mode, child>>
      BY <1>0, <1>18 DEF SidecarSpawn, Holds, Stage, locks
    <3>2. mode = "NotRunning"
      BY <1>0, <3>1 DEF ModeFits, Rising, SidecarPath
    <3>3. child = 0 /\ ~ready.active
      BY <1>0, <3>1, <3>2 DEF SidecarFits
    <3>4. \A p \in Pids : proc[p] # "up"
      BY <1>0, <3>1, <3>3 DEF SidecarFits, Current, Pids
    <3> QED BY <3>1, <3>2, <3>3, <3>4
  <2>2. CASE Goto(c, "sideProbe")
    <3>1. spawned' = spawned + 1 /\ ready' = NowReady(ready)
          /\ proc' = [proc EXCEPT ![spawned + 1] = "up"]
          /\ drain' = [drain EXCEPT ![spawned + 1] = "reading"]
          /\ drainGen' = [drainGen EXCEPT ![spawned + 1] = ready.gen + 1]
      BY <1>18, <2>1, <2>2, Moves DEF SidecarSpawn, Moved
    <3>2. Stage' = "sideProbe"
      BY <1>0, <2>1, <2>2, Moves DEF Stage, Moved
    <3>3. spawned + 1 \in Pids /\ spawned' # 0
      <4>1. SideType /\ SideType' /\ MaxOps \in Nat
        <5>1. SideType'
          BY TypeParts, PTL
        <5> QED BY <5>1, TypeParts, LifecycleAssumption DEF MaxOps
      <4> QED BY <3>1, <4>1 DEF Pids, SideType
    <3> QED BY <2>1, <3>1, <3>2, <3>3 DEF SidecarFits, Current, NowReady, TypeOK
  <2>3. CASE ~Goto(c, "sideProbe")
    <3>1. UNCHANGED <<procs, ready>> /\ Stage' = "startFailed"
      BY <1>0, <1>18, <2>1, <2>3, Moves DEF SidecarSpawn, Stage, Moved
    <3> QED BY <2>1, <3>1 DEF SidecarFits, Current, procs
  <2> QED BY <2>2, <2>3
<1>19. CASE SidecarProbe(c)
  BY <1>19, <1>0, Moves, RouteBack
  DEF SidecarProbe, Holds, StopGuard, CoreStopped, NotReady, Killed, Moved, Stage, SidecarFits,
      ModeFits, Current, Rising, ServicePath, SidecarPath, TypeOK, Belongs, locks, core, procs,
      side, svc, owner, known, os, life
<1>20. CASE SidecarReady(c)
  BY <1>20, <1>0, Moves, RouteBack
  DEF SidecarReady, Holds, CoreStarted, Moved, Stage, SidecarFits, ModeFits, Current, Rising,
      ServicePath, SidecarPath, TypeOK, Belongs, locks, core, procs, side, svc, owner, known, os,
      life
<1>21. CASE Started(c)
  BY <1>21, <1>0, Moves, RouteBack
  DEF Started, Holds, GivesUp, Moved, Stage, SidecarFits, ModeFits, Current, Belongs, locks, core,
      side, procs
<1>22. CASE Capture(c)
  BY <1>22, <1>0, CaptureMoves
  DEF Holds, GivesUp, Moved, Stage, SidecarFits, ModeFits, Current, Belongs, locks, core, side,
      procs
<1>23. CASE ApplyWrite(c)
  BY <1>23, <1>0, Moves, RouteBack, WriteKeeps
  DEF ApplyWrite, Holds, GivesUp, Moved, Stage, SidecarFits, ModeFits, Current, Belongs, locks,
      core, side, procs
<1>24. CASE ApplyCheck(c)
  BY <1>24, <1>0, Moves, RouteBack
  DEF ApplyCheck, Holds, Moved, Stage, SidecarFits, ModeFits, Current, Belongs, locks, core, side,
      procs
<1>25. CASE ApplyGuard(c)
  BY <1>25, <1>0, Moves, RouteBack
  DEF ApplyGuard, Holds, GivesUp, Moved, Stage, SidecarFits, ModeFits, Current, Belongs, locks,
      core, side, procs
<1>26. CASE ApplyRecheck(c)
  BY <1>26, <1>0, Moves, RouteBack
  DEF ApplyRecheck, Holds, Moved, Stage, SidecarFits, ModeFits, Current, Belongs, locks, core,
      side, procs
<1>27. CASE ApplyUndo(c)
  BY <1>27, <1>0, Moves, RouteBack
  DEF ApplyUndo, Holds, Cleared, ClearFailed, GivesUp, Moved, Stage, SidecarFits, ModeFits,
      Current, Belongs, locks, core, side, procs
<1>28. CASE SetProxy(c)
  BY <1>28, <1>0, SetProxyMoves
  DEF Holds, Moved, Stage, SidecarFits, ModeFits, Current, Belongs, locks, core, side, procs
<1>29. CASE RollBack(c)
  BY <1>29, <1>0, Moves, RouteBack
  DEF RollBack, Holds, Cleared, ClearFailed, Moved, Stage, SidecarFits, ModeFits, Current, Belongs,
      locks, core, side, procs
<1>30. CASE Undo(c)
  BY <1>30, <1>0, Moves, RouteBack
  DEF Undo, Holds, StopGuard, CoreStopped, NotReady, Moved, Stage, SidecarFits, ModeFits, Current,
      Belongs, locks, core, side, procs
<1> QED BY <1>1, <1>2, <1>3, <1>4, <1>5, <1>6, <1>7, <1>8, <1>9, <1>10, <1>11, <1>12, <1>13, <1>14,
      <1>15, <1>16, <1>17, <1>18, <1>19, <1>20, <1>21, <1>22, <1>23, <1>24, <1>25, <1>26, <1>27,
      <1>28, <1>29, <1>30 DEF Locked

\* A core of the helper has its session, and a monitor that watches it.
LEMMA HolderSession ==
  ASSUME TypeOK, CallsFit, MonitorsFit, ModeFits, SessionFits, NEW c \in Calls, Locked(c)
  PROVE  SessionFits'
<1>0. lock \in Calls \cup {None} /\ None \notin Calls
  BY LifecycleAssumption DEF TypeOK
<1>1. CASE Admit(c)
  BY <1>1, <1>0, Moves, RouteBack
  DEF Admit, Holds, StopGuard, Moved, Stage, SessionFits, Witness, ModeFits, Belongs, locks, core,
      svc, owner
<1>2. CASE Restage(c)
  BY <1>2, <1>0, Moves, RouteBack
  DEF Restage, Holds, Moved, Stage, SessionFits, Witness, ModeFits, Belongs, locks, core, svc, owner
<1>3. CASE SetUp(c)
  BY <1>3, <1>0, Moves, RouteBack
  DEF SetUp, Holds, GivesUp, Moved, Stage, SessionFits, Witness, ModeFits, Belongs, locks, core,
      svc, owner
<1>4. CASE Plan(c)
  BY <1>4, <1>0, PlanMoves
  DEF Holds, Moved, Stage, SessionFits, Witness, ModeFits, Belongs, locks, core, svc, owner
<1>5. CASE StopProxy(c)
  BY <1>5, <1>0, Moves, RouteBack
  DEF StopProxy, Holds, Cleared, ClearFailed, StopGuard, Moved, Stage, SessionFits, Witness,
      ModeFits, Belongs, locks, core, svc, owner
<1>6. CASE StopCore(c)
  <2>1. /\ Stage = "stopCore" /\ Stage' # "svcStarted"
        /\ mode' = mode /\ session' = session /\ monitors' = monitors
        /\ mode = "Service" => monGen' = monGen + 1 /\ Stage' = "stopIpc"
    BY <1>0, <1>6, Moves DEF StopCore, Holds, Stage, Moved, AfterStop, locks, core
  <2>2. \A m \in monitors : m.gen <= monGen /\ m.gen \in Nat /\ (m.at # "watching" => m.gen < monGen)
    BY DEF MonitorsFit, TypeOK
  <2>3. monGen \in Nat
    BY DEF TypeOK
  <2> QED BY <1>0, <2>1, <2>2, <2>3 DEF SessionFits
<1>7. CASE StopExit(c)
  BY <1>7, <1>0, Moves, RouteBack
  DEF StopExit, Holds, Exited, CoreStopped, NotReady, AfterStop, Moved, Stage, SessionFits,
      Witness, ModeFits, Belongs, locks, core, svc, owner
<1>8. CASE StopIpc(c)
  <2>1. /\ Stage = "stopIpc" /\ Stage' \notin {"stopIpc", "svcStarted"} /\ lock' = lock
        /\ \/ CoreStopped
           \/ UNCHANGED core /\ session' = session /\ StartMonitor
    BY <1>0, <1>8, StopIpcMoves DEF Stage, Moved, AfterStop
  <2>2. CASE CoreStopped
    BY <2>1, <2>2 DEF CoreStopped, SessionFits
  <2>3. CASE UNCHANGED core /\ session' = session /\ StartMonitor
    <3>1. mode = "Service" /\ mode' = "Service" /\ session # 0
      BY <1>0, <2>1, <2>3 DEF ModeFits, SessionFits, core
    <3> QED BY <2>1, <2>3, <3>1, MonitorStarts DEF SessionFits
  <2> QED BY <2>1, <2>2, <2>3
<1>9. CASE Start(c)
  BY <1>9, <1>0, Moves, RouteBack
  DEF Start, Holds, Moved, Stage, SessionFits, Witness, ModeFits, Belongs, locks, core, svc, owner
<1>10. CASE Decide(c)
  BY <1>10, <1>0, Moves, RouteBack
  DEF Decide, Holds, StopGuard, CoreStopped, NotReady, Moved, Stage, SessionFits, Witness,
      ModeFits, Belongs, locks, core, svc, owner
<1>11. CASE StartFailed(c)
  BY <1>11, <1>0, Moves, RouteBack
  DEF StartFailed, Holds, StopGuard, CoreStopped, NotReady, GivesUp, Moved, Stage, SessionFits,
      Witness, ModeFits, Belongs, locks, core, svc, owner
<1>12. CASE ServiceRefresh(c)
  BY <1>12, <1>0, Moves, RouteBack
  DEF ServiceRefresh, Holds, Moved, Stage, SessionFits, Witness, ModeFits, Belongs, locks, core,
      svc, owner
<1>13. CASE ServiceStart(c)
  BY <1>13, <1>0, Moves, RouteBack
  DEF ServiceStart, Holds, Moved, Stage, SessionFits, Witness, ModeFits, Rising, ServicePath,
      Belongs, locks, core, procs, side, svc, owner, known, os, life
<1>14. CASE ServiceIpc(c)
  <2>1. /\ Stage = "svcIpc" /\ mode' = mode
        /\ Stage' = "svcStarted" => granted' = granted + 1
    BY <1>0, <1>14, Moves DEF ServiceIpc, Holds, Grant, Stage, Moved, locks, core
  <2>2. mode = "NotRunning"
    BY <1>0, <2>1 DEF ModeFits, Rising, ServicePath
  <2> QED BY <2>1, <2>2 DEF SessionFits, TypeOK
<1>15. CASE ServiceStarted(c)
  <2>1. Stage = "svcStarted" /\ Stage' = "started" /\ session' = granted /\ StartMonitor
    BY <1>0, <1>15, Moves DEF ServiceStarted, Holds, Stage, Moved, locks
  <2>2. session' # 0
    BY <1>0, <2>1 DEF SessionFits
  <2> QED BY <2>1, <2>2, MonitorStarts DEF SessionFits
<1>16. CASE SidecarExit(c)
  BY <1>16, <1>0, Moves, RouteBack
  DEF SidecarExit, Holds, Exited, Moved, Stage, SessionFits, Witness, ModeFits, Belongs, locks,
      core, svc, owner
<1>17. CASE SidecarReserve(c)
  BY <1>17, <1>0, Moves, RouteBack
  DEF SidecarReserve, Holds, CoreStopped, NotReady, Moved, Stage, SessionFits, Witness, ModeFits,
      Belongs, locks, core, svc, owner
<1>18. CASE SidecarSpawn(c)
  BY <1>18, <1>0, Moves, RouteBack
  DEF SidecarSpawn, Holds, NowReady, Moved, Stage, SessionFits, Witness, ModeFits, Belongs, locks,
      core, svc, owner
<1>19. CASE SidecarProbe(c)
  BY <1>19, <1>0, Moves, RouteBack
  DEF SidecarProbe, Holds, StopGuard, CoreStopped, NotReady, Killed, Moved, Stage, SessionFits,
      Witness, ModeFits, Belongs, locks, core, svc, owner
<1>20. CASE SidecarReady(c)
  BY <1>20, <1>0, Moves, RouteBack
  DEF SidecarReady, Holds, CoreStarted, Moved, Stage, SessionFits, Witness, ModeFits, Belongs,
      locks, core, svc, owner
<1>21. CASE Started(c)
  BY <1>21, <1>0, Moves, RouteBack
  DEF Started, Holds, GivesUp, Moved, Stage, SessionFits, Witness, ModeFits, Belongs, locks, core,
      svc, owner
<1>22. CASE Capture(c)
  BY <1>22, <1>0, CaptureMoves
  DEF Holds, GivesUp, Moved, Stage, SessionFits, Witness, ModeFits, Belongs, locks, core, svc, owner
<1>23. CASE ApplyWrite(c)
  BY <1>23, <1>0, Moves, RouteBack, WriteKeeps
  DEF ApplyWrite, Holds, GivesUp, Moved, Stage, SessionFits, Witness, ModeFits, Belongs, locks,
      core, svc, owner
<1>24. CASE ApplyCheck(c)
  BY <1>24, <1>0, Moves, RouteBack
  DEF ApplyCheck, Holds, Moved, Stage, SessionFits, Witness, ModeFits, Belongs, locks, core, svc,
      owner
<1>25. CASE ApplyGuard(c)
  BY <1>25, <1>0, Moves, RouteBack
  DEF ApplyGuard, Holds, GivesUp, Moved, Stage, SessionFits, Witness, ModeFits, Belongs, locks,
      core, svc, owner
<1>26. CASE ApplyRecheck(c)
  BY <1>26, <1>0, Moves, RouteBack
  DEF ApplyRecheck, Holds, Moved, Stage, SessionFits, Witness, ModeFits, Belongs, locks, core, svc,
      owner
<1>27. CASE ApplyUndo(c)
  BY <1>27, <1>0, Moves, RouteBack
  DEF ApplyUndo, Holds, Cleared, ClearFailed, GivesUp, Moved, Stage, SessionFits, Witness,
      ModeFits, Belongs, locks, core, svc, owner
<1>28. CASE SetProxy(c)
  BY <1>28, <1>0, SetProxyMoves
  DEF Holds, Moved, Stage, SessionFits, Witness, ModeFits, Belongs, locks, core, svc, owner
<1>29. CASE RollBack(c)
  BY <1>29, <1>0, Moves, RouteBack
  DEF RollBack, Holds, Cleared, ClearFailed, Moved, Stage, SessionFits, Witness, ModeFits, Belongs,
      locks, core, svc, owner
<1>30. CASE Undo(c)
  BY <1>30, <1>0, Moves, RouteBack
  DEF Undo, Holds, StopGuard, CoreStopped, NotReady, Moved, Stage, SessionFits, Witness, ModeFits,
      Belongs, locks, core, svc, owner
<1> QED BY <1>1, <1>2, <1>3, <1>4, <1>5, <1>6, <1>7, <1>8, <1>9, <1>10, <1>11, <1>12, <1>13, <1>14,
      <1>15, <1>16, <1>17, <1>18, <1>19, <1>20, <1>21, <1>22, <1>23, <1>24, <1>25, <1>26, <1>27,
      <1>28, <1>29, <1>30 DEF Locked

\* The core is down and stays down for a holder that finds every quit agreed.
LEMMA QuitBack ==
  ASSUME TypeOK, CallsFit, NEW c \in Calls, HolderStep(c), QuitsAgree'
  PROVE  QuitsAgree /\ op[c].kind \notin {"quit", "leave"}
<1>1. PICK k, s : /\ Moved(c, k, s) /\ s \in Held \cup Ends
                  /\ k = op[c].kind \/ (op[c].at = "rollback" /\ k = "undo")
  BY DEF HolderStep
<1>2. s # "exit" /\ UNCHANGED <<exiting, exited>>
  BY <1>1
  DEF HolderStep, life, Held, Ends, StopPath, StartPath, ApplyPath, Rising, ServicePath, SidecarPath
<1>3. op[c].at = "rollback" => op[c].kind \in ToSidecar
  BY RouteBack DEF Belongs
<1>4. op[c].kind \notin {"quit", "leave"} /\ k \notin {"quit", "leave"}
  BY <1>1, <1>2, <1>3 DEF QuitsAgree, Moved, ToSidecar
<1> QED BY <1>1, <1>2, <1>4 DEF QuitsAgree, Moved

\* No holder brings the core up again once every quit agrees that it is down.
LEMMA HolderQuit ==
  ASSUME TypeOK, CallsFit, QuitFits, NEW c \in Calls, Locked(c)
  PROVE  QuitFits'
<1> SUFFICES ASSUME QuitsAgree'
             PROVE  /\ mode' = "NotRunning" /\ \A p \in Pids : proc'[p] # "up"
                    /\ Stage' \notin Rising
                    /\ Stage' \in StopPath => op'[lock'].kind # "replace"
  BY DEF QuitFits
<1>a. HolderStep(c)
  BY HolderMoves
<1>b. QuitsAgree
  BY <1>a, QuitBack
<1>0. /\ lock = c /\ None \notin Calls /\ exiting
      /\ mode = "NotRunning" /\ \A p \in Pids : proc[p] # "up"
      /\ op[c].at \notin Rising
      /\ op[c].at \in StopPath => op[c].kind # "replace"
  BY <1>a, <1>b, LifecycleAssumption DEF HolderStep, QuitFits, QuitsAgree, Stage
<1>1. CASE Admit(c)
  BY <1>1, <1>0, Moves, RouteBack
  DEF Admit, Holds, StopGuard, Moved, Stage, Rising, ServicePath, SidecarPath, StopPath, Belongs,
      locks, core, side, procs
<1>2. CASE Restage(c)
  BY <1>2, <1>0, Moves, RouteBack
  DEF Restage, Holds, Moved, Stage, Rising, ServicePath, SidecarPath, StopPath, Belongs, locks,
      core, side, procs
<1>3. CASE SetUp(c)
  BY <1>3, <1>0, Moves, RouteBack
  DEF SetUp, Holds, GivesUp, Moved, Stage, Rising, ServicePath, SidecarPath, StopPath, Belongs,
      locks, core, side, procs
<1>4. CASE Plan(c)
  <2>1. op[c].kind = "restart" /\ lock' = lock /\ UNCHANGED <<core, side>> /\ Moved(c, op[c].kind, "stop")
    BY <1>4, PlanMoves, RouteBack DEF Holds, Belongs, locks
  <2> QED BY <1>0, <2>1
          DEF Moved, Stage, Rising, ServicePath, SidecarPath, StopPath, core, side, procs
<1>5. CASE StopProxy(c)
  BY <1>5, <1>0, Moves, RouteBack
  DEF StopProxy, Holds, Cleared, ClearFailed, StopGuard, Moved, Stage, Rising, ServicePath,
      SidecarPath, StopPath, Belongs, locks, core, side, procs
<1>6. CASE StopCore(c)
  BY <1>6, <1>0, Moves, RouteBack
  DEF StopCore, Holds, AfterStop, Moved, Stage, Rising, ServicePath, SidecarPath, StopPath,
      Belongs, locks, core, side, procs
<1>7. CASE StopExit(c)
  BY <1>7, <1>0, Moves, RouteBack
  DEF StopExit, Holds, Exited, CoreStopped, NotReady, AfterStop, Moved, Stage, Rising, ServicePath,
      SidecarPath, StopPath, Belongs, locks, core, side, procs
<1>8. CASE StopIpc(c)
  <2>1. mode' = mode \/ mode' = "NotRunning"
    BY <1>8, StopIpcMoves DEF CoreStopped, core
  <2>2. /\ op[c].at = "stopIpc" /\ lock' = lock /\ UNCHANGED side
        /\ Moved(c, op[c].kind, "failed") \/ Moved(c, op[c].kind, AfterStop(op[c].kind))
    BY <1>8, StopIpcMoves
  <2> QED BY <1>0, <2>1, <2>2
          DEF AfterStop, Moved, Stage, Rising, ServicePath, SidecarPath, StopPath, side, procs
<1>9. CASE Start(c)
  BY <1>9, <1>0, Moves, RouteBack
  DEF Start, Holds, Moved, Stage, Rising, ServicePath, SidecarPath, StopPath, Belongs, locks, core,
      side, procs
<1>10. CASE Decide(c)
  BY <1>10, <1>0, Moves, RouteBack
  DEF Decide, Holds, StopGuard, CoreStopped, NotReady, Moved, Stage, Rising, ServicePath,
      SidecarPath, StopPath, Belongs, locks, core, side, procs
<1>11. CASE StartFailed(c)
  BY <1>11, <1>0, Moves, RouteBack
  DEF StartFailed, Holds, StopGuard, CoreStopped, NotReady, GivesUp, Moved, Stage, Rising,
      ServicePath, SidecarPath, StopPath, Belongs, locks, core, side, procs
<1>12. CASE Started(c)
  BY <1>12, <1>0, Moves, RouteBack
  DEF Started, Holds, GivesUp, Moved, Stage, Rising, ServicePath, SidecarPath, StopPath, Belongs,
      locks, core, side, procs
<1>13. CASE Capture(c)
  BY <1>13, <1>0, CaptureMoves
  DEF Holds, GivesUp, Moved, Stage, Rising, ServicePath, SidecarPath, StopPath, Belongs, locks,
      core, side, procs
<1>14. CASE ApplyWrite(c)
  BY <1>14, <1>0, Moves, RouteBack, WriteKeeps
  DEF ApplyWrite, Holds, GivesUp, Moved, Stage, Rising, ServicePath, SidecarPath, StopPath,
      Belongs, locks, core, side, procs
<1>15. CASE ApplyCheck(c)
  BY <1>15, <1>0, Moves, RouteBack
  DEF ApplyCheck, Holds, Moved, Stage, Rising, ServicePath, SidecarPath, StopPath, Belongs, locks,
      core, side, procs
<1>16. CASE ApplyGuard(c)
  BY <1>16, <1>0, Moves, RouteBack
  DEF ApplyGuard, Holds, GivesUp, Moved, Stage, Rising, ServicePath, SidecarPath, StopPath,
      Belongs, locks, core, side, procs
<1>17. CASE ApplyRecheck(c)
  BY <1>17, <1>0, Moves, RouteBack
  DEF ApplyRecheck, Holds, Moved, Stage, Rising, ServicePath, SidecarPath, StopPath, Belongs,
      locks, core, side, procs
<1>18. CASE ApplyUndo(c)
  BY <1>18, <1>0, Moves, RouteBack
  DEF ApplyUndo, Holds, Cleared, ClearFailed, GivesUp, Moved, Stage, Rising, ServicePath,
      SidecarPath, StopPath, Belongs, locks, core, side, procs
<1>19. CASE SetProxy(c)
  BY <1>0, <1>19, SetProxyMoves
  DEF Holds, Moved, Stage, Rising, ServicePath, SidecarPath, StopPath, locks, core, side, procs
<1>20. CASE RollBack(c)
  BY <1>20, <1>0, Moves, RouteBack
  DEF RollBack, Holds, Cleared, ClearFailed, Moved, Stage, Rising, ServicePath, SidecarPath,
      StopPath, Belongs, locks, core, side, procs
<1>21. CASE Undo(c)
  BY <1>21, <1>0, Moves, RouteBack
  DEF Undo, Holds, StopGuard, CoreStopped, NotReady, Moved, Stage, Rising, ServicePath,
      SidecarPath, StopPath, Belongs, locks, core, side, procs
<1>22. CASE ServiceRefresh(c) \/ ServiceStart(c) \/ ServiceIpc(c) \/ ServiceStarted(c)
         \/ SidecarExit(c) \/ SidecarReserve(c) \/ SidecarSpawn(c) \/ SidecarProbe(c)
         \/ SidecarReady(c)
  BY <1>0, <1>22
  DEF Rising, ServicePath, SidecarPath, Holds, ServiceRefresh, ServiceStart, ServiceIpc,
      ServiceStarted, SidecarExit, SidecarReserve, SidecarSpawn, SidecarProbe, SidecarReady
<1> QED BY <1>1, <1>2, <1>3, <1>4, <1>5, <1>6, <1>7, <1>8, <1>9, <1>10, <1>11, <1>12, <1>13, <1>14,
      <1>15, <1>16, <1>17, <1>18, <1>19, <1>20, <1>21, <1>22 DEF Locked

-----------------------------------------------------------------------------
(* What the others leave alone.                                            *)

\* A holder that abandoned the lock has it for ever.
LEMMA AbandonedStays ==
  ASSUME TypeOK, CallsFit, Abandoned, [Next]_vars PROVE Abandoned'
<1>0. lock \in Calls /\ op[lock].at = "idle" /\ None \notin Calls
  BY LifecycleAssumption DEF Abandoned, Stage, TypeOK
<1>1. "idle" \notin Held \cup Ends
  BY DEF Held, Ends, StopPath, StartPath, ApplyPath, Rising, ServicePath, SidecarPath
<1>2. ASSUME NEW c \in Calls, HolderStep(c) PROVE FALSE
  BY <1>0, <1>1, <1>2 DEF HolderStep
<1>3. ASSUME NEW c \in Calls, Aside(c) PROVE Abandoned'
  <2>1. AsideStep(c)
    BY <1>3, AsideMoves
  <2> QED BY <1>0, <1>1, <2>1 DEF AsideStep, Abandoned, Stage, Moved
<1>4. ASSUME NEW c \in Calls, LockLifecycle(c) PROVE FALSE
  BY <1>0, <1>4 DEF LockLifecycle
<1>5. CASE UNCHANGED <<lock, op>>
  BY <1>5 DEF Abandoned, Stage
<1> QED BY <1>2, <1>3, <1>4, <1>5, WorkCases, NextCases, OutsideKeeps DEF vars, locks

\* What the parts of CoreFits say of a stage carries over to one of which they
\* say no more.
LEMMA SameCore ==
  ASSUME ModeFits, PacFits, GuardFits, SidecarFits, SessionFits,
         UNCHANGED <<core, side, svc, owner, guard>>,
         \/ Stage' = Stage /\ (Stage = "ok" => op'[lock'].kind = op[lock].kind)
         \/ /\ Stage \in Ends \cup {"free"}
            /\ Stage' \in {"free", "start", "plan", "admit", "restage", "proxy", "stop"}
  PROVE  ModeFits' /\ PacFits' /\ GuardFits' /\ SidecarFits' /\ SessionFits'
<1>1. ModeFits'
  BY DEF ModeFits, core, Ends, Rising, ServicePath, SidecarPath
<1>2. PacFits' /\ GuardFits'
  BY DEF PacFits, GuardFits, core, Ends
<1>3. SidecarFits'
  BY DEF SidecarFits, Current, core, side, procs, Ends
<1>4. SessionFits'
  BY DEF SessionFits, Witness, core, owner, svc, Ends
<1> QED BY <1>1, <1>2, <1>3, <1>4

\* A call beside the lock does not disturb what its holder relies on.
LEMMA AsideCore ==
  ASSUME TypeOK, CallsFit, CoreFits, NEW c \in Calls, Aside(c)
  PROVE  Abandoned' \/ CoreFits'
<1>0. AsideStep(c) /\ None \notin Calls /\ lock \in Calls \cup {None}
  BY AsideMoves, LifecycleAssumption DEF TypeOK
<1> SUFFICES ASSUME ~Abandoned' PROVE CoreFits'
  OBVIOUS
<1>1. \/ lock' = lock /\ Stage' = Stage /\ lock # c
      \/ lock = c /\ lock' = None /\ Stage \in Ends /\ Stage' = "free"
  BY <1>0 DEF AsideStep, Stage, Moved, Abandoned
<1>2. Stage = "ok" /\ lock # c => op'[lock].kind = op[lock].kind
  BY <1>0 DEF AsideStep, Stage, Moved
<1>3. ModeFits' /\ PacFits' /\ GuardFits' /\ SidecarFits' /\ SessionFits'
  BY <1>0, <1>1, <1>2, SameCore DEF AsideStep, CoreFits
<1>4. QuitFits'
  <2> SUFFICES ASSUME QuitsAgree'
               PROVE  /\ mode' = "NotRunning" /\ \A p \in Pids : proc'[p] # "up"
                      /\ Stage' \notin Rising
                      /\ Stage' \in StopPath => op'[lock'].kind # "replace"
    BY DEF QuitFits
  <2>0. "free" \notin Rising \cup StopPath /\ UNCHANGED <<mode, proc>>
    BY <1>0 DEF Rising, ServicePath, SidecarPath, StopPath, AsideStep, core, side, procs
  <2>1. CASE QuitsAgree
    <3>1. /\ mode = "NotRunning" /\ \A p \in Pids : proc[p] # "up"
          /\ Stage \notin Rising
          /\ Stage \in StopPath => op[lock].kind # "replace"
      BY <2>1 DEF CoreFits, QuitFits
    <3>2. Stage \in StopPath /\ lock # c => op'[lock].kind = op[lock].kind
      BY <1>0 DEF AsideStep, Stage, Moved, StopPath
    <3> QED BY <1>1, <2>0, <3>1, <3>2
  <2>2. ASSUME NEW k, NEW s, Moved(c, k, s), k \notin {"quit", "leave"},
               op[c].kind \notin {"quit", "leave"}, UNCHANGED <<exiting, exited>>
        PROVE  QuitsAgree
    BY <2>2 DEF QuitsAgree, Moved
  <2>3. CASE LockWrite(c)
    BY <2>1, <2>2, <2>3, LockWriteMoves, Moves DEF ToSidecar, life
  <2>4. CASE Validate(c) \/ Reload(c)
    <3>1. op[c].kind = "update"
      BY <2>4, RouteBack DEF Validate, Reload, Belongs
    <3>2. /\ UNCHANGED life
          /\ \/ Goto(c, "failed") \/ Goto(c, "ok") \/ Goto(c, "reload")
             \/ Become(c, "replace", "lock") \/ Become(c, "restart", "lock")
      BY <2>4, Zenon DEF Validate, Reload
    <3> QED BY <2>1, <2>2, <3>1, <3>2, Moves DEF life
  <2>5. CASE Return(c)
    <3>1. None \notin {"quit", "leave"}
      BY LifecycleAssumption DEF Callable
    <3> QED BY <2>1, <2>2, <2>5, <3>1, ReturnMoves, Moves DEF life
  <2>6. CASE Cleaned(c)
    <3>1. op[c].at = "ok" /\ op[c].kind = "quit" /\ lock = c /\ lock' = None
      BY <2>6, QuitMoves DEF QuitsAgree, Moved
    <3>2. Stage = "ok" /\ Stage' = "free"
      BY <1>0, <3>1 DEF Stage
    <3>3. mode = "NotRunning"
      BY <3>1, <3>2 DEF CoreFits, ModeFits
    <3>4. \A p \in Pids : proc[p] # "up"
      BY <3>2, <3>3 DEF CoreFits, SidecarFits, Current, Pids
    <3> QED BY <2>0, <3>2, <3>3, <3>4
  <2>7. CASE Exit(c)
    BY <2>7, QuitMoves DEF QuitsAgree, Moved
  <2>8. CASE Left(c)
    BY <2>8, QuitMoves DEF QuitsAgree
  <2>9. ASSUME NEW k \in Kinds, Begin(c, k) PROVE QuitsAgree
    <3>1. PICK s : /\ s = IF k \in ToSidecar \cup {"sysproxy"} THEN "write"
                          ELSE IF k = "update" THEN "validate" ELSE "lock"
                   /\ op' = [op EXCEPT ![c] = [Idle EXCEPT !.kind = k, !.at = s]]
      BY <2>9, BeginMoves
    <3>2. Moved(c, k, s) /\ s # "exit"
      BY <3>1 DEF TypeOK, Idle, Moved
    <3>3. k # "quit" /\ k # "leave"
      BY <3>2, LifecycleAssumption DEF QuitsAgree, Moved, Callable, Flagged
    <3>4. op[c].kind = None /\ exited' = exited /\ exiting' = exiting
      BY <2>9, <3>3, BeginMoves
    <3>5. None \notin {"quit", "leave"}
      BY LifecycleAssumption DEF Callable
    <3> QED BY <2>2, <3>2, <3>3, <3>4, <3>5
  <2> QED BY <2>1, <2>3, <2>4, <2>5, <2>6, <2>7, <2>8, <2>9 DEF Aside
<1> QED BY <1>3, <1>4 DEF CoreFits

\* The one who takes the lock may rely on what the last holder left.
LEMMA LockCore ==
  ASSUME TypeOK, CallsFit, CoreFits, NEW c \in Calls, LockLifecycle(c) PROVE CoreFits'
<1>0. None \notin Calls
  BY LifecycleAssumption
<1>1. /\ Stage = "free" /\ lock' = c /\ op'[c].at = Stage' /\ op'[c].kind = op[c].kind
      /\ Stage' \in {"start", "plan", "admit", "restage", "proxy", "stop"}
      /\ op[c].kind = "replace" => Stage' = "restage"
      /\ UNCHANGED <<core, side, svc, owner, guard, life>>
  BY <1>0, LockMoves DEF Stage, Moved, os
<1>2. ModeFits' /\ PacFits' /\ GuardFits' /\ SidecarFits' /\ SessionFits'
  BY <1>1, SameCore DEF CoreFits
<1>3. QuitFits'
  <2>1. QuitsAgree' => QuitsAgree
    BY <1>1, LockMoves DEF QuitsAgree, Moved, life
  <2>2. Stage' \notin Rising /\ "restage" \notin StopPath
    BY <1>1 DEF Rising, ServicePath, SidecarPath, StopPath
  <2> QED BY <1>1, <2>1, <2>2 DEF QuitFits, CoreFits, core, side, procs
<1> QED BY <1>2, <1>3 DEF CoreFits

\* Nor does the world outside: a core that ends stays reported until it is noticed.
LEMMA OutsideCore ==
  ASSUME TypeOK, CallsFit, ChildrenFit, MonitorsFit, CoreFits, Outside PROVE CoreFits'
<1>0. /\ ModeFits /\ PacFits /\ GuardFits /\ SidecarFits /\ SessionFits /\ QuitFits
      /\ Stage' = Stage /\ UNCHANGED <<lock, op, spawned, granted>>
      /\ QuitsAgree' => QuitsAgree
      /\ lock = None => Stage = "free"
      /\ proc \in [Pids -> {"unborn", "up", "dying", "dead"}]
      /\ drain \in [Pids -> {"unborn", "reading", "told", "waiting", "done"}]
  BY OutsideKeeps DEF CoreFits, Stage, locks, life, QuitsAgree, TypeOK
<1>1. ASSUME UNCHANGED <<core, side, owner, guard>> PROVE CoreFits'
  BY <1>0, <1>1
  DEF CoreFits, ModeFits, PacFits, GuardFits, SidecarFits, Current, SessionFits, Witness,
      QuitFits, core, side, procs, owner
\* The core goes down with the lock free, and nothing is left of it.
<1>2. ASSUME CoreStopped, guard' = FALSE, lock = None, UNCHANGED proc, child' = 0,
             \A p \in Pids : proc[p] # "up"
      PROVE  CoreFits'
  <2>1. ModeFits' /\ PacFits' /\ GuardFits'
    BY <1>0, <1>2
    DEF CoreStopped, ModeFits, PacFits, GuardFits, Rising, ServicePath, SidecarPath
  <2>2. SidecarFits' /\ SessionFits' /\ QuitFits'
    BY <1>0, <1>2, Zenon
    DEF CoreStopped, NotReady, SidecarFits, Current, SessionFits, QuitFits
  <2> QED BY <2>1, <2>2 DEF CoreFits
<1>3. ASSUME NEW p \in Pids, ChildEnds(p) PROVE CoreFits'
  <2>1. UNCHANGED <<core, child, drain, drainGen, owner, guard>> /\ \A q \in Pids : proc'[q] = "up" => proc[q] = "up"
    BY <1>0, <1>3 DEF ChildEnds, os
  <2> QED BY <1>0, <2>1
          DEF CoreFits, ModeFits, PacFits, GuardFits, SidecarFits, Current, SessionFits, Witness,
              QuitFits, core, owner
<1>4. ASSUME NEW p \in Pids, DrainTells(p) PROVE CoreFits'
  <2>1. /\ UNCHANGED <<core, child, proc, drainGen, owner, guard>>
        /\ drain' = [drain EXCEPT ![p] = "told"]
    BY <1>4 DEF DrainTells, os
  <2>2. SidecarFits'
    BY <1>0, <2>1 DEF SidecarFits, Current, core
  <2> QED BY <1>0, <2>1, <2>2
          DEF CoreFits, ModeFits, PacFits, GuardFits, SessionFits, Witness, QuitFits, core, owner
<1>5. ASSUME NEW p \in Pids, DrainInvalidates(p) PROVE CoreFits'
  <2>1. /\ UNCHANGED <<mode, pac, child, proc, drainGen, owner, guard>>
        /\ drain' = [drain EXCEPT ![p] = "waiting"]
        /\ ready' = ready \/ ready' = NotReady(ready)
    BY <1>5 DEF DrainInvalidates, os
  <2>2. ready'.active => ready' = ready
    BY <2>1 DEF NotReady
  <2>3. SidecarFits'
    BY <1>0, <2>1, <2>2 DEF SidecarFits, Current
  <2> QED BY <1>0, <2>1, <2>3
          DEF CoreFits, ModeFits, PacFits, GuardFits, SessionFits, Witness, QuitFits, owner
<1>6. ASSUME NEW p \in Pids, DrainClears(p) PROVE CoreFits'
  <2>0. /\ drain[p] = "waiting" /\ lock = None /\ drain' = [drain EXCEPT ![p] = "done"]
        /\ proc[p] = "dead" /\ UNCHANGED <<proc, drainGen, owner>>
    BY <1>6 DEF DrainClears, ChildrenFit, procs
  <2>1. CASE mode = "Sidecar" /\ child = p
    <3>1. child' = 0 /\ guard' = FALSE /\ CoreStopped
      BY <1>6, <2>1 DEF DrainClears, StopGuard
    <3>2. \A q \in Pids : proc[q] # "up"
      BY <1>0, <2>0, <2>1 DEF SidecarFits, Current
    <3> QED BY <1>2, <2>0, <3>1, <3>2
  <2>2. CASE ~(mode = "Sidecar" /\ child = p)
    <3>1. UNCHANGED <<child, core, guard>>
      BY <1>6, <2>2, Zenon DEF DrainClears, os
    <3>2. child # p
      <4>1. p # 0
        BY DEF Pids
      <4> QED BY <1>0, <2>0, <2>2, <4>1 DEF SidecarFits
    <3>3. SidecarFits'
      BY <1>0, <2>0, <3>1, <3>2 DEF SidecarFits, Current, core
    <3> QED BY <1>0, <2>0, <3>1, <3>3
            DEF CoreFits, ModeFits, PacFits, GuardFits, SessionFits, Witness, QuitFits, core, owner
  <2> QED BY <2>1, <2>2
<1>7. /\ monGen \in Nat
      /\ \A m \in monitors : m.gen \in Nat /\ m.gen <= monGen /\ (m.at # "watching" => m.gen < monGen)
      /\ \A m, n \in monitors : m.gen = n.gen => m = n
  BY DEF MonitorsFit, TypeOK
<1>8. ASSUME UNCHANGED <<mode, pac, side, guard>>, SessionFits',
             ready'.active => ready' = ready
      PROVE  CoreFits'
  BY <1>0, <1>8
  DEF CoreFits, ModeFits, PacFits, GuardFits, SidecarFits, Current, QuitFits, side, procs
<1>9. ASSUME NEW m \in monitors, MonitorEnds(m) PROVE CoreFits'
  <2>1. /\ m.at = "watching" /\ (monGen # m.gen \/ mode # "Service")
        /\ monitors' = monitors \ {m} /\ UNCHANGED <<core, side, session, monGen, guard>>
    BY <1>9 DEF MonitorEnds, os
  <2>2. SessionFits'
    BY <1>0, <2>1 DEF SessionFits, Witness, core
  <2> QED BY <1>8, <2>1, <2>2 DEF core
<1>10. ASSUME NEW m \in monitors, NEW why \in Whys, MonitorClaims(m, why) PROVE CoreFits'
  <2>1. PICK n : n = [m EXCEPT !.at = "claimed", !.why = why]
    OBVIOUS
  <2>2. n.gen = m.gen /\ n.sess = m.sess /\ n.at = "claimed"
    BY <2>1 DEF MonitorsFit
  <2>3. /\ mode = "Service" /\ monGen = m.gen /\ monGen' = m.gen + 1
        /\ monitors' = (monitors \ {m}) \cup {n} /\ UNCHANGED <<core, side, session, guard>>
    BY <1>10, <2>1 DEF MonitorClaims, Swap, os
  <2>4. session # 0 /\ m.sess = session
    BY <1>0, <2>3 DEF SessionFits
  <2>5. \A i \in monitors' : i.gen = monGen' \/ i.gen + 1 = monGen' => i = n
    BY <1>7, <2>3
  <2>6. Witness(n)' /\ n \in monitors'
    BY <2>2, <2>3, <2>4, <1>7 DEF Witness
  <2>7. SessionFits'
    BY <1>0, <2>2, <2>3, <2>4, <2>5, <2>6 DEF SessionFits
  <2> QED BY <1>8, <2>3, <2>7 DEF core
<1>11. ASSUME NEW m \in monitors, MonitorInvalidates(m) PROVE CoreFits'
  <2>1. PICK n : n = [m EXCEPT !.at = "waiting"]
    OBVIOUS
  <2>2. n.gen = m.gen /\ n.sess = m.sess /\ n.at = "waiting"
    BY <2>1 DEF MonitorsFit
  <2>3. /\ m.at = "claimed" /\ ready' = NotReady(ready)
        /\ monitors' = (monitors \ {m}) \cup {n} /\ UNCHANGED <<mode, pac, side, session, monGen, guard>>
    BY <1>11, <2>1 DEF MonitorInvalidates, Swap, os
  <2>4. SessionFits'
    <3>1. Witness(m) => Witness(n)'
      BY <2>2, <2>3 DEF Witness
    <3>2. \A i \in monitors : i # m => (Witness(i) => Witness(i)')
      BY <2>3 DEF Witness
    <3> QED BY <1>0, <2>2, <2>3, <3>1, <3>2 DEF SessionFits
  <2>5. ready'.active => ready' = ready
    BY <2>3 DEF NotReady
  <2> QED BY <1>8, <2>3, <2>4, <2>5
<1>12. ASSUME NEW m \in monitors, MonitorRecovers(m) PROVE CoreFits'
  <2>1. /\ m.at = "waiting" /\ lock = None /\ monitors' = monitors \ {m}
        /\ UNCHANGED <<side, monGen>>
    BY <1>12 DEF MonitorRecovers
  <2>2. CASE monGen = m.gen + 1 /\ mode = "Service"
    <3>1. CoreStopped /\ guard' = FALSE
      BY <1>12, <2>2, RecoverKeeps DEF MonitorRecovers
    <3>2. child = 0 /\ UNCHANGED <<proc, child>>
      BY <1>0, <2>1, <2>2 DEF SidecarFits, side, procs
    <3>3. \A p \in Pids : proc[p] # "up"
      BY <1>0, <2>1, <3>2 DEF SidecarFits, Current, Pids
    <3> QED BY <1>2, <2>1, <3>1, <3>2, <3>3
  <2>3. CASE ~(monGen = m.gen + 1 /\ mode = "Service")
    <3>1. UNCHANGED <<core, session, guard>>
      BY <1>12, <2>3 DEF MonitorRecovers, os
    <3>2. mode = "Service" => ~Witness(m)
      BY <1>7, <2>1, <2>3 DEF Witness
    <3>3. SessionFits'
      BY <1>0, <2>1, <3>1, <3>2 DEF SessionFits, Witness, core
    <3> QED BY <1>8, <2>1, <3>1, <3>3 DEF core
  <2> QED BY <2>2, <2>3
<1>13. ASSUME Observe \/ ServiceCoreEnds \/ ServiceCoreReturns \/ Displaced PROVE CoreFits'
  BY <1>1, <1>13 DEF Observe, ServiceCoreEnds, ServiceCoreReturns, Displaced, os
<1> QED
  BY <1>3, <1>4, <1>5, <1>6, <1>9, <1>10, <1>11, <1>12, <1>13 DEF Outside, Drain, Monitor

-----------------------------------------------------------------------------
(* The invariant holds.                                                    *)

\* The application starts with no core, and nothing under way.
LEMMA InitInv == Init => IInv
<1> SUFFICES ASSUME Init PROVE IInv
  OBVIOUS
<1>0. /\ None \notin Calls \cup Callable \cup {"replace", "undo", "leave"} /\ MaxOps \in Nat
      /\ Settings \subseteq BOOLEAN /\ Budget \in Nat
  BY LifecycleAssumption DEF MaxOps
<1>1. \A c \in Calls : op[c] = Idle
  BY DEF Init
<1>2. Idle \in CallRecord
  BY DEF Idle, CallRecord, AnyKind, Stages, Nothing, Expected, Modes
<1>3. TypeOK
  <2>1. LockType /\ CoreType
    BY DEF Init, LockType, CoreType, Modes
  <2>a. SessionType /\ MonitorType
    BY DEF Init, SessionType, MonitorType
  <2>b. LifeType
    <3>1. exiting = FALSE /\ exited = "no" /\ begun = 0
      BY DEF Init
    <3>2. Budget \in Nat /\ 0 \in 0 .. Budget
      BY LifecycleAssumption
    <3> QED BY <3>1, <3>2, Zenon DEF LifeType
  <2>2. OpType
    BY <1>2 DEF Init, OpType
  <2>3. SideType
    BY <1>0 DEF Init, SideType
  <2>4. KnownType /\ OsType
    BY <1>0 DEF Init, KnownType, OsType
  <2> QED BY <2>1, <2>a, <2>b, <2>2, <2>3, <2>4, TypeParts
<1>4. CallsFit
  <2>1. "idle" \in Route(None)
    BY <1>0 DEF Route, Callable, Flagged, ToSidecar
  <2>2. "idle" \notin Held \cup Ends
    BY DEF Held, Ends, StopPath, StartPath, ApplyPath, Rising, ServicePath, SidecarPath
  <2> QED BY <1>0, <1>1, <2>1, <2>2 DEF Init, CallsFit, Idle
<1>5. SpawnsPaid
  <2>1. Pending = {}
    BY <1>0, <1>1 DEF Pending, Idle, Spawning, Callable, Flagged
  <2>2. IsFiniteSet(Pending) /\ Cardinality(Pending) = 0
    BY <2>1, FS_EmptySet
  <2> QED BY <2>2 DEF Init, SpawnsPaid
<1>6. ChildrenFit
  BY DEF Init, ChildrenFit, Pids
<1>7. Stage = "free"
  BY DEF Init, Stage
<1>8. ReservationFits /\ MonitorsFit
  BY <1>7 DEF Init, ReservationFits, Alive, MonitorsFit
<1>9. ModeFits /\ PacFits /\ GuardFits /\ SidecarFits /\ SessionFits
  BY <1>7 DEF Init, ModeFits, PacFits, GuardFits, SidecarFits, Current, SessionFits, Rising,
              ServicePath, SidecarPath
<1>10. QuitFits
  BY DEF Init, QuitFits, QuitsAgree
<1> QED BY <1>3, <1>4, <1>5, <1>6, <1>8, <1>9, <1>10 DEF IInv, CoreFits

\* Every step keeps the invariant.
LEMMA Inductive ==
  ASSUME IInv, [Next]_vars PROVE IInv'
<1>0. TypeOK /\ CallsFit /\ SpawnsPaid /\ ChildrenFit /\ ReservationFits /\ MonitorsFit
  BY DEF IInv
<1>1. TypeOK'
  BY <1>0, TypeStep
<1>2. begun' \in Nat /\ spawned' \in Nat /\ session' \in Nat
  <2>1. SideType' /\ SessionType' /\ LifeType'
    BY <1>1, TypeParts, PTL
  <2>2. Budget \in Nat /\ MaxOps \in Nat
    BY LifecycleAssumption DEF MaxOps
  <2> QED BY <2>1, <2>2 DEF SideType, SessionType, LifeType
<1>3. CallsFit' /\ SpawnsPaid' /\ ChildrenFit' /\ ReservationFits' /\ MonitorsFit'
  BY <1>0, <1>2, CallsStep, SpawnsStep, ChildrenStep, ReservationStep, MonitorsStep
<1>4. Abandoned' \/ CoreFits'
  <2>1. CASE Abandoned
    BY <1>0, <2>1, AbandonedStays
  <2>2. CASE CoreFits
    <3>1. ASSUME NEW c \in Calls, Locked(c) PROVE CoreFits'
      BY <1>0, <1>1, <2>2, <3>1, HolderMode, HolderPac, HolderGuard, HolderSide, HolderSession,
         HolderQuit DEF CoreFits
    <3>2. ASSUME NEW c \in Calls, Aside(c) PROVE Abandoned' \/ CoreFits'
      BY <1>0, <2>2, <3>2, AsideCore
    <3>3. ASSUME NEW c \in Calls, LockLifecycle(c) PROVE CoreFits'
      BY <1>0, <2>2, <3>3, LockCore
    <3>4. CASE Outside
      BY <1>0, <2>2, <3>4, OutsideCore
    <3>5. CASE UNCHANGED vars
      BY <2>2, <3>5
      DEF vars, locks, core, side, procs, owner, svc, os, life, CoreFits, ModeFits, PacFits,
          GuardFits,
          SidecarFits, Current, SessionFits, Witness, QuitFits, QuitsAgree, Stage
    <3> QED BY <1>0, <3>1, <3>2, <3>3, <3>4, <3>5, NextCases, WorkCases
  <2> QED BY <2>1, <2>2 DEF IInv
<1> QED BY <1>1, <1>3, <1>4 DEF IInv

\* The lifecycle of the core keeps its invariant.
THEOREM Invariant == Spec => []IInv
<1>1. IInv /\ [Next]_vars => IInv'
  BY Inductive
<1> QED BY InitInv, <1>1, PTL DEF Spec

-----------------------------------------------------------------------------
(* What follows from it.                                                   *)

\* Every variable keeps to its range: a child that is known has been started, a
\* session that is known has been granted, and the budget of the calls pays for
\* the children they start (each of them starts one at most).
THEOREM Typed == Spec => []TypeOK
<1>1. IInv => TypeOK
  BY DEF IInv
<1> QED BY Invariant, <1>1, PTL

\* Two cores never run at the same time, of which one may be on its way out or
\* the helper's: whoever lives, the machine-wide reservation stands for it
\* (start_core_by_sidecar, state.rs).
THEOREM CoresAlone == Spec => []OneCore
<1>1. IInv => OneCore
  <2> SUFFICES ASSUME IInv PROVE OneCore
    OBVIOUS
  <2>1. /\ \A p \in Pids : Alive(p) => reservation = p
        /\ svcCore => reservation = 0
    BY DEF IInv, ReservationFits
  <2>2. 0 \notin Pids
    BY DEF Pids
  <2> QED BY <2>1, <2>2 DEF OneCore
<1> QED BY Invariant, <1>1, PTL

\* With the lock free no holder has abandoned it.
LEMMA FreeFits ==
  ASSUME IInv, lock = None PROVE Stage = "free" /\ CoreFits
BY DEF IInv, Abandoned, Stage

\* With the lifecycle lock free, what the manager reports fits together: the mode
\* with the child, the session and the readiness, and a child that has ended with
\* the reader that still has to look (clear_terminated_sidecar).
THEOREM CoreSettled == Spec => []SettledCore
<1>1. IInv => SettledCore
  <2> SUFFICES ASSUME IInv, lock = None
               PROVE  /\ (mode = "Sidecar") <=> (child # 0)
                      /\ \A p \in Pids : proc[p] = "up" => child = p
                      /\ mode = "Service" => session # 0
                      /\ ready.active => mode # "NotRunning"
                      /\ ready.active /\ mode = "Sidecar" => ready.gen = drainGen[child]
                      /\ mode = "Sidecar" /\ proc[child] = "dead" => drain[child] # "done"
    BY DEF SettledCore
  <2>1. Stage = "free" /\ SidecarFits /\ SessionFits
    BY FreeFits DEF CoreFits
  <2> QED BY <2>1 DEF SidecarFits, Current, SessionFits
<1> QED BY Invariant, <1>1, PTL

\* With the lifecycle lock free, the guard never outlives the core it was started
\* for, however that core ended (stop_guard and clear in lifecycle.rs, state.rs
\* and service.rs).
THEOREM GuardWithCore == Spec => []GuardServed
<1>1. IInv => GuardServed
  BY FreeFits DEF GuardServed, CoreFits, GuardFits
<1> QED BY Invariant, <1>1, PTL

\* With the lifecycle lock free, a core of the helper is always watched by a
\* monitor that may still act on what it learns (start_owner_monitor, service.rs).
THEOREM HelperWatched == Spec => []ServiceWatched
<1>1. IInv => ServiceWatched
  BY FreeFits DEF ServiceWatched, CoreFits, SessionFits, Witness
<1> QED BY Invariant, <1>1, PTL

\* With the lifecycle lock free, the PAC file is served exactly when a core runs
\* (enter_mode, runstate/mod.rs).
THEOREM PacWithMode == Spec => []PacFollowsMode
<1>1. IInv => PacFollowsMode
  BY FreeFits DEF PacFollowsMode, CoreFits, PacFits
<1> QED BY Invariant, <1>1, PTL

\* A recovery gives up only the session its monitor watched: the generation it
\* claimed is still the last one, so no other session has begun
\* (recover_after_owner_loss).
THEOREM RecoversItsOwn == Spec => RecoveryHitsItsSession
<1>1. ASSUME IInv, NEW m \in monitors, MonitorRecovers(m), session' # session
      PROVE  m.sess = session
  <2>1. m.at = "waiting" /\ lock = None /\ monGen = m.gen + 1 /\ mode = "Service"
    BY <1>1, Zenon DEF MonitorRecovers
  <2>2. SessionFits
    BY <1>1, <2>1, FreeFits DEF CoreFits
  <2> QED BY <2>1, <2>2 DEF SessionFits
<1>2. IInv /\ [Next]_vars =>
        [\A m \in monitors : MonitorRecovers(m) /\ session' # session => m.sess = session]_vars
  BY <1>1
<1> QED BY Invariant, <1>2, PTL DEF Spec, RecoveryHitsItsSession

\* An application that leaves without giving up, and with no other quit under
\* way, leaves no core it reports and no child it has not killed: the stop of its
\* quit, or of the event loop, has ended, and is_exiting kept every start that
\* was waiting for the lock from going on (quit, RunEvent::Exit).
THEOREM NothingLeft == Spec => QuitLeavesNoCore
<1>1. ASSUME IInv, [Next]_vars, exited = "no", exited' = "clean",
             \A c \in Calls : op'[c].kind \notin {"quit", "leave"}
      PROVE  mode' = "NotRunning" /\ \A p \in Pids : proc'[p] # "up"
  <2>0. TypeOK /\ CallsFit
    BY <1>1 DEF IInv
  <2>1. PICK c \in Calls : Exit(c) \/ Left(c)
    <3>1. ASSUME NEW c \in Calls, NEW k \in Kinds, Begin(c, k) PROVE exited' = exited
      BY <2>0, <3>1, BeginMoves
    <3> QED BY <1>1, <3>1, WorkFrame, OutsideKeeps DEF Next, Outside, vars, life
  <2>2. CoreFits
    <3>1. ~Abandoned
      <4>1. "idle" \notin Held \cup Ends
        BY DEF Held, Ends, StopPath, StartPath, ApplyPath, Rising, ServicePath, SidecarPath
      <4> QED BY <1>1, <2>0, <4>1 DEF CallsFit, Abandoned, Stage, TypeOK
    <3> QED BY <1>1, <3>1 DEF IInv
  <2>3. mode = "NotRunning" /\ \A p \in Pids : proc[p] # "up"
    <3>1. CASE Exit(c)
      <4>1. op[c].at = "exit" /\ exiting /\ op[c].kind = "quit" /\ Moved(c, None, "idle")
        BY <1>1, <2>0, <3>1, QuitMoves, RouteBack DEF Belongs
      <4>2. \A d \in Calls : op[d].kind \in {"quit", "leave"} => op[d].at = "exit"
        BY <1>1, <4>1 DEF Moved
      <4> QED BY <1>1, <2>2, <4>1, <4>2 DEF CoreFits, QuitFits, QuitsAgree
    <3>2. CASE Left(c)
      <4>1. op[c].at = "ok" /\ op[c].kind = "leave"
        BY <1>1, <2>0, <3>2, QuitMoves
      <4>2. lock = c /\ Stage = "ok"
        BY <2>0, <4>1, LifecycleAssumption DEF CallsFit, Ends, Stage
      <4>3. mode = "NotRunning" /\ child = 0
        BY <2>2, <4>1, <4>2 DEF CoreFits, ModeFits, SidecarFits
      <4> QED BY <2>2, <4>2, <4>3 DEF CoreFits, SidecarFits, Current, Pids
    <3> QED BY <2>1, <3>1, <3>2
  <2>4. UNCHANGED <<mode, proc>>
    BY <2>0, <2>1, QuitMoves DEF core, side, procs
  <2> QED BY <2>3, <2>4
<1>2. IInv /\ [Next]_vars =>
        [exited = "no" /\ exited' = "clean" /\ (\A c \in Calls : op'[c].kind \notin {"quit", "leave"})
           => mode' = "NotRunning" /\ \A p \in Pids : proc'[p] # "up"]_vars
  BY <1>1
<1> QED BY Invariant, <1>2, PTL DEF Spec, QuitLeavesNoCore
=============================================================================
